---- MODULE Spec2Model ----
(***************************************************************************)
(* A model of hpp::model::urdf::Parser (src/src/urdf/parser.cc): the build *)
(* of a kinematic tree from a decoded URDF link/joint graph.               *)
(*                                                                         *)
(* Numbers are exact rationals <<p, q>> (q > 0, lowest terms), so that the *)
(* matrix algebra of the parser (CkitMat4, vector3d) is computed as the    *)
(* code computes it, up to floating-point rounding.  Indices are 1-based:  *)
(* the code's x[i], result(i, j) are x[i+1], result[i+1][j+1] here.        *)
(***************************************************************************)
EXTENDS Integers, Sequences, FiniteSets, TLC

(***************************************************************************)
(* Exact arithmetic                                                        *)
(***************************************************************************)
Abs(n) == IF n < 0 THEN -n ELSE n

RECURSIVE GCD(_, _)
GCD(a, b) == IF b = 0 THEN a ELSE GCD(b, a % b)

\* the rational p/q in lowest terms with a positive denominator (q # 0)
RatBy(p, q, g) ==
  IF q < 0 THEN <<(-p) \div g, (-q) \div g>> ELSE <<p \div g, q \div g>>
Rat(p, q) == RatBy(p, q, GCD(Abs(p), Abs(q)))

R0 == <<0, 1>>
R1 == <<1, 1>>
RInt(n) == <<n, 1>>
RAdd(a, b) == Rat(a[1] * b[2] + b[1] * a[2], a[2] * b[2])
RSub(a, b) == Rat(a[1] * b[2] - b[1] * a[2], a[2] * b[2])
RMul(a, b) == Rat(a[1] * b[1], a[2] * b[2])
RDiv(a, b) == Rat(a[1] * b[2], a[2] * b[1])
RNeg(a) == <<-a[1], a[2]>>
RLt(a, b) == a[1] * b[2] < b[1] * a[2]
\* std::fabs
fabs(a) == <<Abs(a[1]), a[2]>>

IsSquare(n) == \E r \in 0..n : r * r = n
ISqrt(n) == CHOOSE r \in 0..n : r * r = n
\* the square root of a rational that is the square of a rational
RSqrt(a) == <<ISqrt(a[1]), ISqrt(a[2])>>

(***************************************************************************)
(* vector3d                                                                *)
(***************************************************************************)
Vec3(a, b, c) == <<RInt(a), RInt(b), RInt(c)>>
Dot(u, v) == RAdd(RAdd(RMul(u[1], v[1]), RMul(u[2], v[2])), RMul(u[3], v[3]))
\* vector3d::operator^ : the cross product
Cross(u, v) ==
  << RSub(RMul(u[2], v[3]), RMul(u[3], v[2])),
     RSub(RMul(u[3], v[1]), RMul(u[1], v[3])),
     RSub(RMul(u[1], v[2]), RMul(u[2], v[1])) >>
\* vector3d::normalize : the vector divided by its Euclidean norm
DivideBy(u, n) == <<RDiv(u[1], n), RDiv(u[2], n), RDiv(u[3], n)>>
Normalize(u) == DivideBy(u, RSqrt(Dot(u, u)))

(***************************************************************************)
(* CkitMat4: a 4x4 matrix, M[i][j] the entry of row i, column j            *)
(***************************************************************************)
Identity4 ==
  [i \in 1..4 |-> [j \in 1..4 |-> IF i = j THEN R1 ELSE R0]]

\* CkitMat4::operator*
MatMul(A, B) ==
  [i \in 1..4 |-> [j \in 1..4 |->
     RAdd(RAdd(RMul(A[i][1], B[1][j]), RMul(A[i][2], B[2][j])),
          RAdd(RMul(A[i][3], B[3][j]), RMul(A[i][4], B[4][j])))]]

\* column j of the rotation part of M, as a vector3d
Col(M, j) == <<M[1][j], M[2][j], M[3][j]>>

\* CkitMat4::inverse for a matrix whose last row is (0, 0, 0, 1): the
\* rotation block inverted by its adjugate, the translation carried along.
\* Cofactor (M, i, j) is the cofactor of entry (i, j) of the upper-left 3x3
\* block, Det3 (M) the determinant of that block.
Cofactor(M, i, j) ==
  RSub(RMul(M[(i % 3) + 1][(j % 3) + 1],
            M[((i + 1) % 3) + 1][((j + 1) % 3) + 1]),
       RMul(M[(i % 3) + 1][((j + 1) % 3) + 1],
            M[((i + 1) % 3) + 1][(j % 3) + 1]))
Det3(M) ==
  RAdd(RAdd(RMul(M[1][1], Cofactor(M, 1, 1)),
            RMul(M[1][2], Cofactor(M, 1, 2))),
       RMul(M[1][3], Cofactor(M, 1, 3)))
InverseRotation(M, det) ==
  [i \in 1..3 |-> [j \in 1..3 |-> RDiv(Cofactor(M, j, i), det)]]
InverseWith(M, W) ==
  [i \in 1..4 |-> [j \in 1..4 |->
     IF i = 4 THEN (IF j = 4 THEN R1 ELSE R0)
     ELSE IF j = 4
          THEN RNeg(RAdd(RAdd(RMul(W[i][1], M[1][4]), RMul(W[i][2], M[2][4])),
                         RMul(W[i][3], M[3][4])))
          ELSE W[i][j]]]
Inverse(M) == InverseWith(M, InverseRotation(M, Det3(M)))

(***************************************************************************)
(* The input graph (urdf::ModelInterface), given by the URDF decoder.      *)
(* A shared pointer to a joint or a link is the joint's or link's name;    *)
(* the null pointer is the name Null.  An optional block (limits,          *)
(* inertial, visual, collision) is a sequence of length 0 or 1.  The map    *)
(* links_ of the graph is the function links_ together with nullLinks_,   *)
(* the keys under which the map holds a null pointer.                      *)
(***************************************************************************)
Null == "null"

\* urdf::Joint::type
JointTypes ==
  {"UNKNOWN", "REVOLUTE", "CONTINUOUS", "PRISMATIC", "FLOATING", "PLANAR",
   "FIXED"}

\* std::map<std::string, ...> iterates its keys in lexicographic order: the
\* names of the model, listed in that order
NameOrder ==
  <<"base_footprint_joint", "base_joint", "gaze_joint", "j1", "j2">>
NameRank(n) == CHOOSE i \in 1..Len(NameOrder) : NameOrder[i] = n
\* the keys of map S as the sequence a const_iterator walks
RECURSIVE KeysFrom(_, _)
KeysFrom(S, i) ==
  IF i > Len(NameOrder) THEN <<>>
  ELSE (IF NameOrder[i] \in S THEN <<NameOrder[i]>> ELSE <<>>)
       \o KeysFrom(S, i + 1)
MapKeys(S) == KeysFrom(S, 1)

\* urdf::Pose values: position (x, y, z) and quaternion (x, y, z, w)
Pose0 == [position |-> <<0, 0, 0>>, rotation |-> <<0, 0, 0, 1>>]
PoseA == [position |-> <<1, 0, 0>>, rotation |-> <<0, 0, 1, 1>>]
PoseB == [position |-> <<0, 2, 0>>, rotation |-> <<1, 0, 0, 0>>]

\* urdf::JointLimits values
Limits1 == [lower |-> -1, upper |-> 1, velocity |-> 2, effort |-> 5]
Limits2 == [lower |-> 0, upper |-> 3, velocity |-> 1, effort |-> 4]

\* the joint descriptions a document may give a joint
JointVariants ==
  { [type |-> "REVOLUTE", axis |-> <<0, 0, 1>>, origin |-> PoseA,
     limits |-> <<Limits1>>],
    [type |-> "REVOLUTE", axis |-> <<1, 0, 0>>, origin |-> PoseB,
     limits |-> <<>>],
    [type |-> "CONTINUOUS", axis |-> <<0, 1, 0>>, origin |-> PoseA,
     limits |-> <<Limits2>>],
    [type |-> "PRISMATIC", axis |-> <<1, 2, 2>>, origin |-> PoseB,
     limits |-> <<Limits2>>],
    [type |-> "FIXED", axis |-> <<1, 0, 0>>, origin |-> Pose0,
     limits |-> <<>>],
    [type |-> "FLOATING", axis |-> <<1, 0, 0>>, origin |-> PoseB,
     limits |-> <<>>],
    [type |-> "PLANAR", axis |-> <<0, 0, 1>>, origin |-> PoseA,
     limits |-> <<>>],
    [type |-> "UNKNOWN", axis |-> <<1, 0, 0>>, origin |-> Pose0,
     limits |-> <<>>] }
DefaultJoint ==
  [type |-> "REVOLUTE", axis |-> <<0, 0, 1>>, origin |-> PoseA,
   limits |-> <<Limits1>>]

\* urdf::Geometry values
MeshA == [type |-> "MESH", filename |-> "a.obj"]
MeshB == [type |-> "MESH", filename |-> "b.obj"]
Box1 == [type |-> "BOX", dim |-> <<1, 2, 3>>]
Cylinder1 == [type |-> "CYLINDER", length |-> 2, radius |-> 1]
Sphere1 == [type |-> "SPHERE", radius |-> 1]

\* the contents a document may give a link
LinkBare == [inertial |-> <<>>, visual |-> <<>>, collision |-> <<>>]
LinkVariants ==
  { LinkBare,
    [inertial |-> <<[origin |-> [position |-> <<1, 2, 3>>,
                                 rotation |-> <<0, 0, 0, 1>>],
                     mass |-> 2,
                     ixx |-> 1, ixy |-> 0, ixz |-> 0,
                     iyy |-> 2, iyz |-> 0, izz |-> 3]>>,
     visual |-> <<[origin |-> PoseA, geometry |-> Box1]>>,
     collision |-> <<[origin |-> PoseA, geometry |-> Box1]>>],
    [inertial |-> <<>>,
     visual |-> <<[origin |-> PoseB, geometry |-> MeshA]>>,
     collision |-> <<[origin |-> PoseB, geometry |-> MeshB]>>] }

\* A topology is the sequence of the document's joints in declared order,
\* each <<joint name, parent link name, child link name>>.
Chain3 ==
  << <<"base_footprint_joint", "base_footprint", "base_link">>,
     <<"j1", "base_link", "l1">>,
     <<"gaze_joint", "l1", "gaze">> >>
Tree3 ==
  << <<"j2", "base_link", "l2">>,
     <<"gaze_joint", "base_link", "gaze">>,
     <<"j1", "l2", "l1">> >>
SiblingsA ==
  << <<"j1", "base_link", "l1">>, <<"gaze_joint", "base_link", "gaze">> >>
SiblingsB ==
  << <<"gaze_joint", "base_link", "gaze">>, <<"j1", "base_link", "l1">> >>
Chain2 ==
  << <<"j1", "base_link", "l1">>, <<"gaze_joint", "l1", "gaze">> >>
DupUnderBase ==
  << <<"base_joint", "base_link", "l1">>, <<"gaze_joint", "l1", "gaze">> >>
DupAboveBase ==
  << <<"base_joint", "world", "base_link">>,
     <<"gaze_joint", "base_link", "gaze">> >>
NoBaseLink == << <<"j1", "world", "l1">> >>
Topologies ==
  {Chain3, Tree3, SiblingsA, SiblingsB, Chain2, DupUnderBase, DupAboveBase,
   NoBaseLink}

TopoJoints(topo) == {topo[i][1] : i \in 1..Len(topo)}
TopoLinks(topo) ==
  {topo[i][2] : i \in 1..Len(topo)} \cup {topo[i][3] : i \in 1..Len(topo)}
\* the joints of topo whose parent link is l, in declared order
RECURSIVE ChildJointsFrom(_, _, _)
ChildJointsFrom(topo, l, i) ==
  IF i > Len(topo) THEN <<>>
  ELSE (IF topo[i][2] = l THEN <<topo[i][1]>> ELSE <<>>)
       \o ChildJointsFrom(topo, l, i + 1)

\* the urdf::ModelInterface the decoder builds for a topology, with the
\* joint descriptions jv and the link contents lv
UrdfModel(topo, jv, lv) ==
  [ joints_ |->
      [n \in TopoJoints(topo) |->
         LET i == CHOOSE k \in 1..Len(topo) : topo[k][1] = n
         IN  [name |-> n, type |-> jv[n].type, axis |-> jv[n].axis,
              parent_link_name |-> topo[i][2],
              child_link_name |-> topo[i][3],
              parent_to_joint_origin_transform |-> jv[n].origin,
              limits |-> jv[n].limits]],
    links_ |->
      [l \in TopoLinks(topo) |->
         [name |-> l,
          parent_joint |->
            IF \E k \in 1..Len(topo) : topo[k][3] = l
            THEN topo[CHOOSE k \in 1..Len(topo) : topo[k][3] = l][1]
            ELSE Null,
          child_joints |-> ChildJointsFrom(topo, l, 1),
          inertial |-> lv[l].inertial,
          visual |-> lv[l].visual,
          collision |-> lv[l].collision]],
    nullLinks_ |-> {},
    root_link_ |->
      CHOOSE l \in TopoLinks(topo) : \A k \in 1..Len(topo) : topo[k][3] # l ]

\* an empty std::map
EmptyMap == [n \in {} |-> Null]

\* a document with a single link and no joint
SingleLink ==
  [ joints_ |-> EmptyMap,
    links_ |-> [l \in {"base_link"} |->
                  [name |-> l, parent_joint |-> Null, child_joints |-> <<>>,
                   inertial |-> <<>>, visual |-> <<>>, collision |-> <<>>]],
    nullLinks_ |-> {},
    root_link_ |-> "base_link" ]

\* urdf::ModelInterface::clear
EmptyModel ==
  [joints_ |-> EmptyMap, links_ |-> EmptyMap, nullLinks_ |-> {},
   root_link_ |-> Null]

\* the robot descriptions handed to parseStream, as the graph the decoder
\* builds from each: every topology with every choice of joint descriptions,
\* the sibling topology with every choice of link contents, and the
\* single-link document
Docs ==
  UNION { { UrdfModel(topo, jv, [l \in TopoLinks(topo) |-> LinkBare]) :
              jv \in [TopoJoints(topo) -> JointVariants] } :
          topo \in Topologies }
  \cup { UrdfModel(SiblingsA, [n \in TopoJoints(SiblingsA) |-> DefaultJoint],
                   lv) :
           lv \in [TopoLinks(SiblingsA) -> LinkVariants] }
  \cup {SingleLink}
\* the documents that vary what the links carry: two sibling joints under
\* base_link, the joint j1 of every kind parseJoints creates, its link l1
\* with an inertial block or with any pair of visual and collision
\* geometry, the two other links both bare or both full
LinkFull ==
  [inertial |-> <<[origin |-> [position |-> <<1, 2, 3>>,
                               rotation |-> <<0, 0, 0, 1>>],
                   mass |-> 2,
                   ixx |-> 1, ixy |-> 0, ixz |-> 0,
                   iyy |-> 2, iyz |-> 0, izz |-> 3]>>,
   visual |-> <<[origin |-> PoseA, geometry |-> Box1]>>,
   collision |-> <<[origin |-> PoseA, geometry |-> Box1]>>]
Visuals ==
  {<<>>} \cup {<<[origin |-> PoseA, geometry |-> g]>> :
                 g \in {MeshA, Box1, Cylinder1, Sphere1}}
Collisions ==
  {<<>>} \cup {<<[origin |-> PoseB, geometry |-> g]>> :
                 g \in {MeshA, MeshB, Box1, Cylinder1}}
LinkContents ==
  {[inertial |-> <<>>, visual |-> v, collision |-> c] :
     v \in Visuals, c \in Collisions}
  \cup {[LinkFull EXCEPT !.visual = <<>>, !.collision = <<>>], LinkFull}
CreatedVariants ==
  {v \in JointVariants : v.type \notin {"PLANAR", "UNKNOWN"}}
BodyDocs ==
  { UrdfModel(SiblingsA,
              [n \in TopoJoints(SiblingsA) |->
                 IF n = "j1" THEN v ELSE DefaultJoint],
              [l \in TopoLinks(SiblingsA) |->
                 IF l = "l1" THEN c ELSE b]) :
      v \in CreatedVariants, c \in LinkContents, b \in {LinkBare, LinkFull} }

\* the documents that have the well-known links of the anatomy roles: one
\* role link beside the gaze link, an arm (wrist and gripper) with a gaze
\* link, and a leg (ankle and sole) with a torso and no gaze link
RoleTopology(l) ==
  << <<"j1", "base_link", l>>, <<"gaze_joint", "base_link", "gaze">> >>
Arm ==
  << <<"j1", "base_link", "l_wrist">>, <<"j2", "l_wrist", "l_gripper">>,
     <<"gaze_joint", "base_link", "gaze">> >>
Leg ==
  << <<"j2", "base_link", "r_ankle">>, <<"j1", "r_ankle", "r_sole">>,
     <<"gaze_joint", "base_link", "torso">> >>
RoleTopologies ==
  { RoleTopology(l) :
      l \in {"torso", "l_wrist", "r_wrist", "l_gripper", "r_gripper",
             "l_ankle", "r_ankle", "l_sole", "r_sole"} }
  \cup {Arm, Leg}
RoleDocs ==
  { UrdfModel(topo,
              [n \in TopoJoints(topo) |->
                 IF n = "j1" THEN v ELSE DefaultJoint],
              [l \in TopoLinks(topo) |-> LinkBare]) :
      topo \in RoleTopologies, v \in JointVariants }

\* the documents with one joint j1 under base_link whose axis is (0, 0, 1):
\* a REVOLUTE joint with the identity origin, a FIXED and a FLOATING joint
SingleJoint == << <<"j1", "base_link", "l1">> >>
AxisZVariants ==
  { [type |-> "REVOLUTE", axis |-> <<0, 0, 1>>, origin |-> Pose0,
     limits |-> <<Limits1>>],
    [type |-> "FIXED", axis |-> <<0, 0, 1>>, origin |-> PoseA,
     limits |-> <<>>],
    [type |-> "FLOATING", axis |-> <<0, 0, 1>>, origin |-> PoseA,
     limits |-> <<>>] }
SingleJointDocs ==
  { UrdfModel(SingleJoint, [n \in TopoJoints(SingleJoint) |-> v],
              [l \in TopoLinks(SingleJoint) |-> LinkBare]) :
      v \in AxisZVariants }

\* what ModelInterface::initString makes of a robot description: the graph of
\* a well-formed text, or nothing for a text the decoder rejects
RobotDescriptions ==
  {[valid |-> TRUE, graph |-> d] :
     d \in Docs \cup BodyDocs \cup RoleDocs \cup SingleJointDocs}
  \cup {[valid |-> FALSE, graph |-> EmptyModel]}

\* urdf::ModelInterface::getJoint and getLink: the pointer, null when the map
\* has no such key (or holds a null pointer under it)
getJoint(m, name) == IF name \in DOMAIN m.joints_ THEN name ELSE Null
getLink(m, name) == IF name \in DOMAIN m.links_ THEN name ELSE Null
\* urdf::ModelInterface::getRoot
getRoot(m) == m.root_link_

(***************************************************************************)
(* Frame Normalizer                                                        *)
(***************************************************************************)
\* the loop of normalizeFrameOrientation that picks smallestComponent
SmallestComponentTiesLast(x) ==
  LET step(s, i) == IF ~RLt(fabs(x[s]), fabs(x[i])) THEN i ELSE s
  IN  step(step(step(1, 1), 2), 3)
SmallestComponent(x) ==
  LET step(s, i) == IF RLt(fabs(x[i]), fabs(x[s])) THEN i ELSE s
  IN  step(step(step(1, 1), 2), 3)

\* what a null urdf::Joint pointer points to
NullJoint == [name |-> Null]

\* normalizeFrameOrientation (urdfJoint), urdfJoint the joint pointed to.
\* FrameOf fills result from the vectors x, y, z; FrameFromZ is the code from
\* "y = z ^ x" on, FrameFromX the code from the loop on.
UnitVector(s) == <<IF s = 1 THEN R1 ELSE R0, IF s = 2 THEN R1 ELSE R0,
                   IF s = 3 THEN R1 ELSE R0>>
FrameOf(x, y, z) ==
  << <<x[1], y[1], z[1], R0>>, <<x[2], y[2], z[2], R0>>,
     <<x[3], y[3], z[3], R0>>, <<R0, R0, R0, R1>> >>
FrameFromZ(x, z) == FrameOf(x, Cross(z, x), z)
FrameFromX(x) == FrameFromZ(x, Cross(x, UnitVector(SmallestComponent(x))))
normalizeFrameOrientation(urdfJoint) ==
  IF urdfJoint.name = Null THEN Identity4
  ELSE FrameFromX(Normalize(Vec3(urdfJoint.axis[1], urdfJoint.axis[2],
                                 urdfJoint.axis[3])))

(***************************************************************************)
(* Pose Resolver                                                           *)
(***************************************************************************)
\* Parser::poseToMatrix; the rotation block is btMatrix3x3 (btQuaternion):
\* with s = 2 / q.length2 (), QuatTerm (q, s, i, j) is q[i] * (q[j] * s), the
\* terms xx, xy, ..., wz of btMatrix3x3::setRotation (x, y, z, w = 1, 2, 3, 4)
QuatTerm(q, s, i, j) == RMul(q[i], RMul(q[j], s))
Length2(q) ==
  RAdd(RAdd(RMul(q[1], q[1]), RMul(q[2], q[2])),
       RAdd(RMul(q[3], q[3]), RMul(q[4], q[4])))
setRotation(q, s, t) ==
  << << RSub(R1, RAdd(QuatTerm(q, s, 2, 2), QuatTerm(q, s, 3, 3))),
        RSub(QuatTerm(q, s, 1, 2), QuatTerm(q, s, 4, 3)),
        RAdd(QuatTerm(q, s, 1, 3), QuatTerm(q, s, 4, 2)), RInt(t[1]) >>,
     << RAdd(QuatTerm(q, s, 1, 2), QuatTerm(q, s, 4, 3)),
        RSub(R1, RAdd(QuatTerm(q, s, 1, 1), QuatTerm(q, s, 3, 3))),
        RSub(QuatTerm(q, s, 2, 3), QuatTerm(q, s, 4, 1)), RInt(t[2]) >>,
     << RSub(QuatTerm(q, s, 1, 3), QuatTerm(q, s, 4, 2)),
        RAdd(QuatTerm(q, s, 2, 3), QuatTerm(q, s, 4, 1)),
        RSub(R1, RAdd(QuatTerm(q, s, 1, 1), QuatTerm(q, s, 2, 2))),
        RInt(t[3]) >>,
     << R0, R0, R0, R1 >> >>
Quaternion(r) == <<RInt(r[1]), RInt(r[2]), RInt(r[3]), RInt(r[4])>>
poseToMatrixOf(q, t) == setRotation(q, RDiv(RInt(2), Length2(q)), t)
poseToMatrix(p) == poseToMatrixOf(Quaternion(p.rotation), p.position)

\* the product "getPoseInReferenceFrame (...) * transform" that ends
\* getPoseInReferenceFrame
chainPoseSwapped(parentPose, transform) == MatMul(transform, parentPose)
chainPose(parentPose, transform) == MatMul(parentPose, transform)

\* Parser::getPoseInReferenceFrame on the graph m.  With
\* referenceJointName = currentJointName the code reads the joint without a
\* null check: the operator is defined for a current joint of the graph.
\* poseFrom is the code from the test of parentLink on, transform being
\* poseToMatrix of the current joint's parent_to_joint_origin_transform.
RECURSIVE getPoseInReferenceFrame(_, _, _)
RECURSIVE poseFrom(_, _, _, _)
getPoseInReferenceFrame(m, referenceJointName, currentJointName) ==
  IF referenceJointName # currentJointName
     /\ getJoint(m, currentJointName) = Null
  THEN Identity4
  ELSE poseFrom(m, referenceJointName, currentJointName,
                poseToMatrix(m.joints_[currentJointName]
                               .parent_to_joint_origin_transform))
poseFrom(m, referenceJointName, joint, transform) ==
  IF referenceJointName = joint THEN transform
  ELSE IF getLink(m, m.joints_[joint].parent_link_name) = Null THEN transform
  ELSE IF m.links_[m.joints_[joint].parent_link_name].parent_joint = Null
  THEN transform
  ELSE chainPose(getPoseInReferenceFrame(
                   m, referenceJointName,
                   m.links_[m.joints_[joint].parent_link_name].parent_joint),
                 transform)

(***************************************************************************)
(* Joint Factory.  A joint node (hpp::model::Joint) is known by its name;  *)
(* jointsMap_ maps the registered names to the nodes.  A degree of freedom *)
(* whose bounded flag or bounds were never set has the flag "unset" and    *)
(* the bounds <<>>.                                                        *)
(***************************************************************************)
NewJoint(kind, name, mat, ndof) ==
  [ name |-> name, kind |-> kind, mat |-> mat,
    isBounded |-> [i \in 1..ndof |-> "unset"],
    bounds |-> [i \in 1..ndof |-> <<>>],
    velocityBounds |-> [i \in 1..ndof |-> <<>>],
    torqueBounds |-> [i \in 1..ndof |-> <<>>],
    children |-> <<>>, body |-> <<>>, solids |-> <<>>, bodyName |-> "",
    jrlBounds |-> [i \in 1..ndof |-> <<>>] ]

\* jointsMap_[name] = joint
Put(jm, name, joint) ==
  [n \in DOMAIN jm \cup {name} |-> IF n = name THEN joint ELSE jm[n]]

\* the limits block of createRotationJoint and createTranslationJoint
WithLimitsEffortAsVelocity(joint, limits) ==
  IF limits = <<>> THEN joint
  ELSE [joint EXCEPT
          !.isBounded[1] = "bounded",
          !.bounds[1] = <<RInt(limits[1].lower), RInt(limits[1].upper)>>,
          !.velocityBounds[1] =
             <<RInt(-limits[1].effort), RInt(limits[1].effort)>>,
          !.torqueBounds[1] =
             <<RInt(-limits[1].effort), RInt(limits[1].effort)>>]
WithLimits(joint, limits) ==
  IF limits = <<>> THEN joint
  ELSE [joint EXCEPT
          !.isBounded[1] = "bounded",
          !.bounds[1] = <<RInt(limits[1].lower), RInt(limits[1].upper)>>,
          !.velocityBounds[1] =
             <<RInt(-limits[1].velocity), RInt(limits[1].velocity)>>,
          !.torqueBounds[1] =
             <<RInt(-limits[1].effort), RInt(limits[1].effort)>>]

\* Each create operation gives the returned pointer and the registry after
\* the call.
Rejected(jm) == [joint |-> Null, jointsMap_ |-> jm]
Registered(jm, joint) ==
  [joint |-> joint.name, jointsMap_ |-> Put(jm, joint.name, joint)]

\* Parser::createFreeflyerJoint
createFreeflyerJoint(jm, name, mat) ==
  IF name \in DOMAIN jm THEN Rejected(jm)
  ELSE Registered(jm,
         [NewJoint("FreeflyerJoint", name, mat, 6) EXCEPT
            !.isBounded = [i \in 1..6 |-> "unbounded"]])

\* Parser::createRotationJoint
createRotationJointOverwriting(jm, name, mat, limits) ==
  Registered(jm, WithLimits(NewJoint("RotationJoint", name, mat, 1), limits))
createRotationJoint(jm, name, mat, limits) ==
  IF name \in DOMAIN jm THEN Rejected(jm)
  ELSE Registered(jm,
         WithLimits(NewJoint("RotationJoint", name, mat, 1), limits))

\* Parser::createContinuousJoint
createContinuousJoint(jm, name, mat) ==
  IF name \in DOMAIN jm THEN Rejected(jm)
  ELSE Registered(jm,
         [NewJoint("RotationJoint", name, mat, 1) EXCEPT
            !.isBounded[1] = "unbounded"])

\* Parser::createTranslationJoint
createTranslationJoint(jm, name, mat, limits) ==
  IF name \in DOMAIN jm THEN Rejected(jm)
  ELSE Registered(jm,
         WithLimits(NewJoint("TranslationJoint", name, mat, 1), limits))

\* Parser::createAnchorJoint
createAnchorJoint(jm, name, mat) ==
  IF name \in DOMAIN jm THEN Rejected(jm)
  ELSE Registered(jm, NewJoint("AnchorJoint", name, mat, 0))

\* Parser::findJoint
findJoint(jm, jointName) == IF jointName \in DOMAIN jm THEN jointName ELSE Null

(***************************************************************************)
(* Tree Assembler                                                          *)
(***************************************************************************)
\* Parser::getChildrenJoint (jointName, result) on graph m and registry jm:
\* the returned flag, the result vector, and whether the call read through
\* a null child link (the code logs the missing link and goes on to read
\* its child_joints).
RECURSIVE getChildrenJoint(_, _, _, _)
RECURSIVE ForEachJointChild(_, _, _, _)
getChildrenJoint(m, jm, jointName, result) ==
  LET joint == getJoint(m, jointName) IN
  IF joint = Null /\ jointName # "base_joint"
  THEN [ok |-> FALSE, nullRead |-> FALSE, result |-> result]
  ELSE
    LET childLink ==
          IF jointName = "base_joint" THEN getLink(m, "base_link")
          ELSE getLink(m, m.joints_[joint].child_link_name)
    IN  IF childLink = Null
        THEN [ok |-> FALSE, nullRead |-> TRUE, result |-> result]
        ELSE ForEachJointChild(m, jm, m.links_[childLink].child_joints,
                               result)
\* the BOOST_FOREACH of getChildrenJoint over jointChildren
ForEachJointChild(m, jm, jointChildren, result) ==
  IF jointChildren = <<>>
  THEN [ok |-> TRUE, nullRead |-> FALSE, result |-> result]
  ELSE
    LET joint == Head(jointChildren) IN
    IF joint \in DOMAIN jm
    THEN ForEachJointChild(m, jm, Tail(jointChildren), Append(result, joint))
    ELSE LET r == getChildrenJoint(m, jm, joint, result) IN
         IF r.nullRead \/ ~r.ok THEN [r EXCEPT !.ok = FALSE]
         ELSE ForEachJointChild(m, jm, Tail(jointChildren), r.result)

(***************************************************************************)
(* Anatomy Resolver                                                        *)
(***************************************************************************)
\* Parser::findSpecialJoint: the graph after model_.links_[repName] (which
\* inserts a null pointer under a missing key) and the role's joint name
findSpecialJointNeverSet(m, repName, jointName) ==
  IF repName \in DOMAIN m.links_
  THEN [model |-> m, jointName |-> jointName]
  ELSE [ model |-> [m EXCEPT !.nullLinks_ = @ \cup {repName}],
         jointName |-> jointName ]
findSpecialJoint(m, repName, jointName) ==
  IF repName \in DOMAIN m.links_
  THEN [ model |-> m,
         jointName |->
           IF m.links_[repName].parent_joint # Null
           THEN m.links_[repName].parent_joint
           ELSE jointName ]
  ELSE [ model |-> [m EXCEPT !.nullLinks_ = @ \cup {repName}],
         jointName |-> jointName ]

\* the well-known link of each role that findSpecialJoints looks up, in the
\* order of the calls
SpecialLinks ==
  << "torso", "l_wrist", "r_wrist", "l_gripper", "r_gripper", "l_ankle",
     "r_ankle", "l_sole", "r_sole", "gaze" >>

(***************************************************************************)
(* The Parser object                                                       *)
(***************************************************************************)
VARIABLES
  model_, robot_, rootJoint_, jointsMap_,
  waistJointName_, chestJointName_, leftWristJointName_,
  rightWristJointName_, leftHandJointName_, rightHandJointName_,
  leftAnkleJointName_, rightAnkleJointName_, leftFootJointName_,
  rightFootJointName_, gazeJointName_,
  pc,        \* where the running parseStream call stands; "idle" outside one
  it,        \* the map iterator of parseJoints and of addBodiesToJoints
  stack,     \* the connectJoints calls in progress, innermost last
  returned,  \* what the last finished parseStream call returned
  joint,     \* what the last joint-creation call returned
  urdfJoint, \* the argument of the last normalizeFrameOrientation call
  frame,     \* the matrix that call returned
  referenceJointName, \* the arguments of the last outermost
  currentJointName,   \* getPoseInReferenceFrame call
  resolvedPose \* the matrix that call returned

specialNames ==
  << waistJointName_, chestJointName_, leftWristJointName_,
     rightWristJointName_, leftHandJointName_, rightHandJointName_,
     leftAnkleJointName_, rightAnkleJointName_, leftFootJointName_,
     rightFootJointName_, gazeJointName_ >>
normalizerVars == <<urdfJoint, frame>>
resolverVars == <<referenceJointName, currentJointName, resolvedPose>>
callVars == <<normalizerVars, resolverVars>>
vars ==
  << model_, robot_, rootJoint_, jointsMap_, specialNames, pc, it, stack,
     returned, joint, callVars >>

\* a null robot_ pointer, and the robot HumanoidRobot::create makes
NullRobot == [null |-> TRUE]
NewRobot ==
  [ null |-> FALSE, rootJoint |-> Null, waist |-> Null, chest |-> Null,
    leftWrist |-> Null, rightWrist |-> Null, leftAnkle |-> Null,
    rightAnkle |-> Null, gazeJoint |-> Null, gaze |-> <<>>,
    leftHand |-> <<>>, rightHand |-> <<>>, leftFoot |-> <<>>,
    rightFoot |-> <<>>, initialized |-> FALSE, actuatedJoints |-> <<>>,
    steeringMethod |-> FALSE ]

\* Parser::Parser: the members of a constructed Parser
NothingBuilt ==
  /\ robot_ = NullRobot
  /\ rootJoint_ = Null
  /\ jointsMap_ = EmptyMap
  /\ waistJointName_ = ""
  /\ chestJointName_ = ""
  /\ leftWristJointName_ = ""
  /\ rightWristJointName_ = ""
  /\ leftHandJointName_ = ""
  /\ rightHandJointName_ = ""
  /\ leftAnkleJointName_ = ""
  /\ rightAnkleJointName_ = ""
  /\ leftFootJointName_ = ""
  /\ rightFootJointName_ = ""
  /\ gazeJointName_ = ""
Constructed ==
  /\ model_ = EmptyModel
  /\ NothingBuilt
\* no parseStream call was made yet
NotRunning ==
  /\ it = 1
  /\ stack = <<>>
  /\ returned = "none"
  /\ joint = Null
Init ==
  /\ Constructed
  /\ NotRunning
  /\ pc = "idle"
  /\ urdfJoint = NullJoint
  /\ frame = Identity4
  /\ referenceJointName = ""
  /\ currentJointName = ""
  /\ resolvedPose = Identity4

\* parseStream's exits through "robot_.reset (); return robot_;"
ReturnNull ==
  /\ robot_' = NullRobot
  /\ returned' = "null"
  /\ pc' = "idle"

\* Parser::parseStream, from its entry to the head of the loop of
\* parseJoints: the reset, the decoding, findSpecialJoints and the creation
\* of the root joint
ParseStream(robotDescription) ==
  /\ pc = "idle"
  /\ it' = 1
  /\ stack' = <<>>
  /\ UNCHANGED callVars
  /\ IF ~robotDescription.valid
     THEN /\ model_' = EmptyModel
          /\ rootJoint_' = Null
          /\ jointsMap_' = EmptyMap
          /\ ReturnNull
          /\ UNCHANGED <<specialNames, joint>>
     ELSE
       LET f1 == findSpecialJoint(robotDescription.graph, SpecialLinks[1],
                                  chestJointName_)
           f2 == findSpecialJoint(f1.model, SpecialLinks[2],
                                  leftWristJointName_)
           f3 == findSpecialJoint(f2.model, SpecialLinks[3],
                                  rightWristJointName_)
           f4 == findSpecialJoint(f3.model, SpecialLinks[4],
                                  leftHandJointName_)
           f5 == findSpecialJoint(f4.model, SpecialLinks[5],
                                  rightHandJointName_)
           f6 == findSpecialJoint(f5.model, SpecialLinks[6],
                                  leftAnkleJointName_)
           f7 == findSpecialJoint(f6.model, SpecialLinks[7],
                                  rightAnkleJointName_)
           f8 == findSpecialJoint(f7.model, SpecialLinks[8],
                                  leftFootJointName_)
           f9 == findSpecialJoint(f8.model, SpecialLinks[9],
                                  rightFootJointName_)
           f10 == findSpecialJoint(f9.model, SpecialLinks[10],
                                   gazeJointName_)
           root == createFreeflyerJoint(EmptyMap, "base_joint", Identity4)
       IN  /\ model_' = f10.model
           /\ waistJointName_' = "base_joint"
           /\ chestJointName_' = f1.jointName
           /\ leftWristJointName_' = f2.jointName
           /\ rightWristJointName_' = f3.jointName
           /\ leftHandJointName_' = f4.jointName
           /\ rightHandJointName_' = f5.jointName
           /\ leftAnkleJointName_' = f6.jointName
           /\ rightAnkleJointName_' = f7.jointName
           /\ leftFootJointName_' = f8.jointName
           /\ rightFootJointName_' = f9.jointName
           /\ gazeJointName_' = f10.jointName
           /\ rootJoint_' = root.joint
           /\ jointsMap_' = root.jointsMap_
           /\ joint' = root.joint
           /\ IF root.joint = Null
              THEN ReturnNull
              ELSE /\ robot_' = [NewRobot EXCEPT !.rootJoint = root.joint]
                   /\ returned' = "none"
                   /\ pc' = "parseJoints"

\* the pose parseJoints computes for the joint `name` of graph m: the
\* resolved pose, normalized for an actuated joint
Actuated(type) == type \in {"REVOLUTE", "CONTINUOUS", "PRISMATIC"}
normalizedPositionAlways(j, position) ==
  MatMul(position, normalizeFrameOrientation(j))
normalizedPosition(j, position) ==
  IF Actuated(j.type) THEN MatMul(position, normalizeFrameOrientation(j))
  ELSE position
parseJointsPosition(m, name) ==
  normalizedPosition(m.joints_[getJoint(m, name)],
                     getPoseInReferenceFrame(m, "base_footprint_joint", name))

\* the create call of the switch of parseJoints for a joint j of a type that
\* has one
createByType(jm, name, position, j) ==
  CASE j.type = "REVOLUTE" ->
         createRotationJoint(jm, name, position, j.limits)
    [] j.type = "CONTINUOUS" -> createContinuousJoint(jm, name, position)
    [] j.type = "PRISMATIC" ->
         createTranslationJoint(jm, name, position, j.limits)
    [] j.type = "FLOATING" -> createFreeflyerJoint(jm, name, position)
    [] j.type = "FIXED" -> createAnchorJoint(jm, name, position)

\* the switch of parseJoints: whether the loop goes on (the other cases
\* return false) and what the create call returns
parseJointsSwitchSkippingPlanar(jm, name, position, j) ==
  IF j.type \in {"REVOLUTE", "CONTINUOUS", "PRISMATIC", "FLOATING", "FIXED"}
  THEN [ok |-> TRUE, create |-> <<createByType(jm, name, position, j)>>]
  ELSE IF j.type = "PLANAR"
       THEN [ok |-> TRUE, create |-> <<Rejected(jm)>>]
       ELSE [ok |-> FALSE, create |-> <<>>]
parseJointsSwitch(jm, name, position, j) ==
  IF j.type \in {"REVOLUTE", "CONTINUOUS", "PRISMATIC", "FLOATING", "FIXED"}
  THEN [ok |-> TRUE, create |-> <<createByType(jm, name, position, j)>>]
  ELSE [ok |-> FALSE, create |-> <<>>]

\* the body of the loop of parseJoints for the joint `name` of graph m
parseJointsIteration(m, jm, name) ==
  parseJointsSwitch(jm, name, parseJointsPosition(m, name),
                    m.joints_[name])

\* one pass of the loop of Parser::parseJoints, for the joint `name`: the
\* pose is resolved, normalized for an actuated joint, and the switch runs
ParseJointsPass(name) ==
  /\ referenceJointName' = "base_footprint_joint"
  /\ currentJointName' = name
  /\ resolvedPose' =
       getPoseInReferenceFrame(model_, "base_footprint_joint", name)
  /\ IF Actuated(model_.joints_[name].type)
     THEN /\ urdfJoint' = model_.joints_[name]
          /\ frame' = normalizeFrameOrientation(model_.joints_[name])
     ELSE UNCHANGED normalizerVars
  /\ \E r \in {parseJointsIteration(model_, jointsMap_, name)} :
         IF r.ok
         THEN /\ jointsMap_' = r.create[1].jointsMap_
              /\ joint' = r.create[1].joint
              /\ it' = it + 1
              /\ UNCHANGED <<robot_, returned, pc>>
         ELSE /\ ReturnNull
              /\ UNCHANGED <<jointsMap_, joint, it>>
  /\ UNCHANGED <<model_, rootJoint_, specialNames, stack>>
ParseJointsIteration ==
  /\ pc = "parseJoints"
  /\ it <= Len(MapKeys(DOMAIN model_.joints_))
  /\ ParseJointsPass(MapKeys(DOMAIN model_.joints_)[it])

\* parseJoints returns true at the end of its loop; parseStream checks the
\* root link and calls connectJoints (rootJoint_)
ParseJointsReturn ==
  /\ pc = "parseJoints"
  /\ it > Len(MapKeys(DOMAIN model_.joints_))
  /\ IF getRoot(model_) = Null
     THEN /\ ReturnNull
          /\ UNCHANGED stack
     ELSE /\ pc' = "connectJoints"
          /\ stack' = <<[joint |-> rootJoint_, state |-> "enter",
                         todo |-> <<>>]>>
          /\ UNCHANGED <<robot_, returned>>
  /\ UNCHANGED <<model_, rootJoint_, jointsMap_, specialNames, it, joint,
                 callVars>>

\* node.addChildJoint (child)
addChildJointFirst(node, child) == [node EXCEPT !.children = <<child>> \o @]
addChildJoint(node, child) == [node EXCEPT !.children = Append(@, child)]

\* Parser::connectJoints, on entry: the children names are computed once,
\* by getChildrenJoint (name), whose flag is dropped.  Reading the
\* child_joints of a null link is undefined: the call dies there, or goes
\* on with the names gathered so far.
ConnectJointsEnter ==
  /\ pc = "connectJoints"
  /\ stack[Len(stack)].state = "enter"
  /\ \E r \in {getChildrenJoint(model_, jointsMap_,
                                 stack[Len(stack)].joint, <<>>)} :
         \E outcome \in (IF r.nullRead THEN {"dies", "goes on"}
                         ELSE {"goes on"}) :
           IF outcome = "dies"
           THEN /\ pc' = "crashed"
                /\ UNCHANGED stack
           ELSE /\ stack' = [stack EXCEPT ![Len(stack)].state = "loop",
                                          ![Len(stack)].todo = r.result]
                /\ UNCHANGED pc
  /\ UNCHANGED <<model_, robot_, rootJoint_, jointsMap_, specialNames, it,
                 returned, joint, callVars>>

\* one pass of the BOOST_FOREACH of connectJoints: the child is attached and
\* connectJoints is called on it.  The call stack is finite: a recursion
\* deeper than MaxDepth ends the process.
MaxDepth == 6
ConnectJointsChild ==
  /\ pc = "connectJoints"
  /\ stack[Len(stack)].state = "loop"
  /\ stack[Len(stack)].todo # <<>>
  /\ LET top == stack[Len(stack)]
         childName == Head(top.todo)
     IN  IF childName \notin DOMAIN jointsMap_ \/ Len(stack) >= MaxDepth
         THEN /\ pc' = "crashed"
              /\ UNCHANGED <<stack, jointsMap_>>
         ELSE /\ jointsMap_' =
                   [jointsMap_ EXCEPT
                      ![top.joint] = addChildJoint(@, childName)]
              /\ stack' =
                   Append([stack EXCEPT ![Len(stack)].todo = Tail(top.todo)],
                          [joint |-> childName, state |-> "enter",
                           todo |-> <<>>])
              /\ UNCHANGED pc
  /\ UNCHANGED <<model_, robot_, rootJoint_, specialNames, it, returned,
                 joint, callVars>>

\* connectJoints returns true at the end of its loop; the outermost call
\* returns to parseStream, which goes on to setSpecialJoints
ConnectJointsReturn ==
  /\ pc = "connectJoints"
  /\ stack[Len(stack)].state = "loop"
  /\ stack[Len(stack)].todo = <<>>
  /\ stack' = SubSeq(stack, 1, Len(stack) - 1)
  /\ pc' = IF Len(stack) = 1 THEN "setSpecialJoints" ELSE pc
  /\ UNCHANGED <<model_, robot_, rootJoint_, jointsMap_, specialNames, it,
                 returned, joint, callVars>>

\* Parser::setSpecialJoints
SetSpecialJoints ==
  /\ pc = "setSpecialJoints"
  /\ robot_' =
       [robot_ EXCEPT
          !.waist = findJoint(jointsMap_, waistJointName_),
          !.chest = findJoint(jointsMap_, chestJointName_),
          !.leftWrist = findJoint(jointsMap_, leftWristJointName_),
          !.rightWrist = findJoint(jointsMap_, rightWristJointName_),
          !.leftAnkle = findJoint(jointsMap_, leftAnkleJointName_),
          !.rightAnkle = findJoint(jointsMap_, rightAnkleJointName_),
          !.gazeJoint = findJoint(jointsMap_, gazeJointName_)]
  /\ pc' = "addBodiesToJoints"
  /\ it' = 1
  /\ UNCHANGED <<model_, rootJoint_, jointsMap_, specialNames, stack,
                 returned, joint, callVars>>

(***************************************************************************)
(* Body/Inertia Attacher and Geometry Attachment Resolver                  *)
(***************************************************************************)
Zero3 == [i \in 1..3 |-> [j \in 1..3 |-> R0]]
\* CkitMat4::rotateY (M_PI / 2)
zTox ==
  << <<R0, R0, R1, R0>>, <<R0, R1, R0, R0>>, <<RNeg(R1), R0, R0, R0>>,
     <<R0, R0, R0, R1>> >>

\* Parser::computeBodyAbsolutePosition for the link `link` of graph m;
\* parentJointInWorld is the position the code reads from the registry
parentJointInWorld(jm, link) ==
  IF link.name = "base_link" THEN jm[findJoint(jm, "base_joint")].mat
  ELSE jm[findJoint(jm, link.parent_joint)].mat
denormalizedNever(m, link, inWorld) == inWorld
denormalized(m, link, inWorld) ==
  IF link.name = "base_link" THEN inWorld
  ELSE IF Actuated(m.joints_[link.parent_joint].type)
       THEN MatMul(inWorld,
                   Inverse(normalizeFrameOrientation(
                             m.joints_[link.parent_joint])))
       ELSE inWorld
computeBodyAbsolutePosition(m, jm, link, pose) ==
  MatMul(denormalized(m, link, parentJointInWorld(jm, link)),
         poseToMatrix(pose))

\* Parser::addSolidComponentToJoint: the returned flag and the solid
\* components added to the joint; loads is what loadPolyhedronFromResource
\* returns for the visual mesh.  solidComponents is the chain of cases, given
\* the position computeBodyAbsolutePosition returns for the origin the case
\* reads (originRead).
originRead(visual, collision) ==
  IF visual.geometry.type = "MESH" /\ collision.geometry.type = "CYLINDER"
  THEN collision.origin ELSE visual.origin
solidComponents(link, visual, collision, loads, position) ==
  IF visual.geometry.type = "MESH" /\ collision.geometry.type = "MESH"
  THEN IF visual.geometry.filename # collision.geometry.filename
       THEN [ok |-> FALSE, solids |-> <<>>]
       ELSE IF ~loads THEN [ok |-> FALSE, solids |-> <<>>]
       ELSE [ok |-> TRUE,
             solids |->
               <<[kind |-> "polyhedron", name |-> link.name,
                  resource |-> visual.geometry.filename,
                  position |-> position]>>]
  ELSE IF visual.geometry.type = "CYLINDER"
          /\ collision.geometry.type = "CYLINDER"
  THEN [ok |-> TRUE,
        solids |->
          <<[kind |-> "cylinder", name |-> link.name,
             radius |-> visual.geometry.radius,
             length |-> visual.geometry.length,
             position |-> MatMul(position, zTox)]>>]
  ELSE IF visual.geometry.type = "BOX" /\ collision.geometry.type = "BOX"
  THEN [ok |-> TRUE,
        solids |->
          <<[kind |-> "box", name |-> link.name,
             dim |-> visual.geometry.dim,
             position |-> position]>>]
  ELSE IF visual.geometry.type = "MESH"
          /\ collision.geometry.type = "CYLINDER"
  THEN [ok |-> TRUE,
        solids |->
          <<[kind |-> "capsule", name |-> link.name,
             length |-> collision.geometry.length,
             radius |-> collision.geometry.radius,
             position |-> MatMul(position, zTox)],
            [kind |-> "segment", name |-> link.name \o "-segment",
             radius |-> collision.geometry.radius,
             position |-> MatMul(position, zTox)]>>]
  ELSE [ok |-> TRUE, solids |-> <<>>]
addSolidComponentToJoint(m, jm, link, loads) ==
  solidComponents(link, link.visual[1], link.collision[1], loads,
                  computeBodyAbsolutePosition(
                    m, jm, link,
                    originRead(link.visual[1], link.collision[1])))

\* the inertial data addBodiesToJoints gives the body of the joint `name`,
\* whose link is `link`: localCom and inertiaMatrix as read from the inertial
\* block, then re-expressed with the normalized joint transform N and its
\* inverse for a link under an actuated joint
localComOf(inertial) ==
  Vec3(inertial.origin.position[1], inertial.origin.position[2],
       inertial.origin.position[3])
inertiaMatrixOf(inertial) ==
  << <<RInt(inertial.ixx), RInt(inertial.ixy), RInt(inertial.ixz)>>,
     <<RInt(inertial.ixy), RInt(inertial.iyy), RInt(inertial.iyz)>>,
     <<RInt(inertial.ixz), RInt(inertial.iyz), RInt(inertial.izz)>> >>
localComTransform(localCom, Ninv) ==
  MatMul(Ninv, [i \in 1..4 |-> [j \in 1..4 |->
                  IF j = 4 /\ i < 4 THEN localCom[i] ELSE Identity4[i][j]]])
inertiaMatrixTransform(inertiaMatrix, N, Ninv) ==
  MatMul(MatMul(Ninv, [i \in 1..4 |-> [j \in 1..4 |->
                         IF i < 4 /\ j < 4 THEN inertiaMatrix[i][j]
                         ELSE Identity4[i][j]]]),
         N)
reexpressed(inertial, N, Ninv) ==
  [mass |-> RInt(inertial.mass),
   localCenterOfMass |->
     Col(localComTransform(localComOf(inertial), Ninv), 4),
   inertiaMatrix |->
     [i \in 1..3 |-> [j \in 1..3 |->
        inertiaMatrixTransform(inertiaMatrixOf(inertial), N, Ninv)[i][j]]]]
reexpressedByInverse(inertial, N) == reexpressed(inertial, Inverse(N), N)
reexpressedBy(inertial, N) == reexpressed(inertial, N, Inverse(N))
bodyOfLink(m, name, link) ==
  IF link.inertial = <<>>
  THEN [mass |-> R0, localCenterOfMass |-> <<R0, R0, R0>>,
        inertiaMatrix |-> Zero3]
  ELSE IF name # "base_joint" /\ Actuated(m.joints_[link.parent_joint].type)
  THEN reexpressedBy(link.inertial[1],
                     normalizeFrameOrientation(m.joints_[link.parent_joint]))
  ELSE [mass |-> RInt(link.inertial[1].mass),
        localCenterOfMass |-> localComOf(link.inertial[1]),
        inertiaMatrix |-> inertiaMatrixOf(link.inertial[1])]

\* the body of the loop of addBodiesToJoints for the registry entry `name`:
\* whether the loop goes on, and the registry afterwards.  withSolids is the
\* code after addSolidComponentToJoint returned r, withGeometry the code
\* from the test of link->visual on, withBody being the registry once the
\* body is attached.
withSolidsFirstOnly(withBody, name, childLinkName, r) ==
  IF ~r.ok THEN [ok |-> FALSE, jointsMap_ |-> withBody]
  ELSE [ok |-> TRUE,
        jointsMap_ |->
          [withBody EXCEPT
             ![name].solids =
                @ \o (IF r.solids = <<>> THEN <<>> ELSE <<Head(r.solids)>>),
             ![name].bodyName = childLinkName]]
withSolidsIgnoringFailure(withBody, name, childLinkName, r) ==
  [ok |-> TRUE,
   jointsMap_ |->
     [withBody EXCEPT ![name].solids = @ \o r.solids,
                      ![name].bodyName = childLinkName]]
withSolids(withBody, name, childLinkName, r) ==
  IF ~r.ok THEN [ok |-> FALSE, jointsMap_ |-> withBody]
  ELSE [ok |-> TRUE,
        jointsMap_ |->
          [withBody EXCEPT ![name].solids = @ \o r.solids,
                           ![name].bodyName = childLinkName]]
withGeometry(m, withBody, name, childLinkName, link, loads) ==
  IF link.visual # <<>> /\ link.collision # <<>>
  THEN withSolids(withBody, name, childLinkName,
                  addSolidComponentToJoint(m, withBody, link, loads))
  ELSE [ok |-> TRUE, jointsMap_ |-> withBody]
withLinkRequiringInertial(m, jm, name, childLinkName, loads) ==
  IF getLink(m, childLinkName) = Null THEN [ok |-> FALSE, jointsMap_ |-> jm]
  ELSE IF m.links_[childLinkName].inertial = <<>>
  THEN [ok |-> FALSE, jointsMap_ |-> jm]
  ELSE withGeometry(
         m,
         [jm EXCEPT
            ![name].body = <<bodyOfLink(m, name, m.links_[childLinkName])>>],
         name, childLinkName, m.links_[childLinkName], loads)
withLink(m, jm, name, childLinkName, loads) ==
  IF getLink(m, childLinkName) = Null THEN [ok |-> FALSE, jointsMap_ |-> jm]
  ELSE withGeometry(
         m,
         [jm EXCEPT
            ![name].body = <<bodyOfLink(m, name, m.links_[childLinkName])>>],
         name, childLinkName, m.links_[childLinkName], loads)
addBodiesIteration(m, jm, name, loads) ==
  IF getJoint(m, name) = Null /\ name # "base_joint"
  THEN [ok |-> TRUE, jointsMap_ |-> jm]
  ELSE withLink(m, jm, name,
                IF name = "base_joint" THEN "base_link"
                ELSE m.joints_[name].child_link_name,
                loads)

\* one pass of the loop of Parser::addBodiesToJoints
AddBodiesIteration ==
  /\ pc = "addBodiesToJoints"
  /\ it <= Len(MapKeys(DOMAIN jointsMap_))
  /\ \E loads \in BOOLEAN :
       \E r \in {addBodiesIteration(model_, jointsMap_,
                                     MapKeys(DOMAIN jointsMap_)[it], loads)} :
           /\ jointsMap_' = r.jointsMap_
           /\ IF r.ok
              THEN /\ it' = it + 1
                   /\ UNCHANGED <<robot_, returned, pc>>
              ELSE /\ ReturnNull
                   /\ UNCHANGED it
  /\ UNCHANGED <<model_, rootJoint_, specialNames, stack, joint,
                 callVars>>

(***************************************************************************)
(* The end of parseStream                                                  *)
(***************************************************************************)
\* Parser::actuatedJoints: the joints gathered from the first n joints of
\* the graph in map order, and whether the call threw
RECURSIVE actuatedJoints(_, _, _)
actuatedJoints(m, jm, n) ==
  IF n = 0 THEN [threw |-> FALSE, jointsVect |-> <<>>]
  ELSE
    LET before == actuatedJoints(m, jm, n - 1)
        name == MapKeys(DOMAIN m.joints_)[n]
    IN  IF before.threw THEN before
        ELSE IF m.joints_[name].type \in {"UNKNOWN", "FLOATING", "FIXED"}
        THEN before
        ELSE IF name \notin DOMAIN jm
        THEN [threw |-> TRUE, jointsVect |-> before.jointsVect]
        ELSE IF \E k \in 1..Len(before.jointsVect) :
                  before.jointsVect[k] = name
        THEN before
        ELSE [threw |-> FALSE, jointsVect |-> Append(before.jointsVect, name)]

\* Parser::computeHandsInformation
handOf(wrist, wrist_M_hand) ==
  [ associatedWrist |-> wrist,
    center |-> Col(wrist_M_hand, 4),
    thumbAxis |-> Col(wrist_M_hand, 1),
    foreFingerAxis |-> Col(wrist_M_hand, 2),
    palmNormal |-> Col(wrist_M_hand, 3) ]
computeHandsInformation(jm, hand, wrist) ==
  handOf(wrist, MatMul(Inverse(jm[wrist].mat), jm[hand].mat))

\* Parser::computeAnklePositionInLocalFrame
computeAnklePositionInLocalFrame(jm, foot, ankle) ==
  Col(MatMul(Inverse(jm[foot].mat), jm[ankle].mat), 4)

\* Parser::fillHandsAndFeet
fillHandsAndFeet(robot, jm, names) ==
  LET has(n) == n \in DOMAIN jm
      foot(f, a) ==
        <<[ankle |-> a,
           anklePositionInLocalFrame |->
             computeAnklePositionInLocalFrame(jm, f, a),
           soleSize |-> <<0, 0>>]>>
  IN  [robot EXCEPT
         !.leftHand =
            IF has(names.leftHand) /\ has(names.leftWrist)
            THEN <<computeHandsInformation(jm, names.leftHand,
                                           names.leftWrist)>>
            ELSE @,
         !.rightHand =
            IF has(names.rightHand) /\ has(names.rightWrist)
            THEN <<computeHandsInformation(jm, names.rightHand,
                                           names.rightWrist)>>
            ELSE @,
         !.leftFoot =
            IF has(names.leftFoot) /\ has(names.leftAnkle)
            THEN foot(names.leftFoot, names.leftAnkle) ELSE @,
         !.rightFoot =
            IF has(names.rightFoot) /\ has(names.rightAnkle)
            THEN foot(names.rightFoot, names.rightAnkle) ELSE @]

\* the bounds setFreeFlyerBounds writes: an infinite bound is +-1/0, and the
\* bound M_PI/6 is the multiple <<"pi", 1, 6>> of pi
Infinity == <<1, 0>>
MinusInfinity == <<-1, 0>>
PiOver6 == <<"pi", 1, 6>>
MinusPiOver6 == <<"pi", -1, 6>>

\* Parser::setFreeFlyerBounds on the root joint node
setFreeFlyerBoundsWithYaw(root) ==
  [root EXCEPT
     !.jrlBounds =
        [i \in 1..6 |-> IF i \in {4, 5, 6} THEN @[i]
                        ELSE <<MinusInfinity, Infinity>>],
     !.isBounded =
        [i \in 1..6 |-> IF i \in {4, 5, 6} THEN "bounded" ELSE @[i]],
     !.bounds =
        [i \in 1..6 |-> IF i \in {4, 5, 6} THEN <<MinusPiOver6, PiOver6>>
                        ELSE @[i]]]
setFreeFlyerBounds(root) ==
  [root EXCEPT
     !.jrlBounds =
        [i \in 1..6 |-> IF i \in {4, 5} THEN @[i]
                        ELSE <<MinusInfinity, Infinity>>],
     !.isBounded = [i \in 1..6 |-> IF i \in {4, 5} THEN "bounded" ELSE @[i]],
     !.bounds =
        [i \in 1..6 |-> IF i \in {4, 5} THEN <<MinusPiOver6, PiOver6>>
                        ELSE @[i]]]

\* addBodiesToJoints returns true at the end of its loop, and parseStream
\* runs to its end: initialize, actuatedJoints, fillGaze, fillHandsAndFeet,
\* the steering method, setFreeFlyerBounds.  fillGaze reads through
\* jointsMap_.find (gazeJointName_) without comparing it to end (): with no
\* such joint that is undefined, and the call dies there or goes on with
\* whatever pointer it read.
ParseStreamEnd ==
  /\ pc = "addBodiesToJoints"
  /\ it > Len(MapKeys(DOMAIN jointsMap_))
  /\ \E act \in {actuatedJoints(model_, jointsMap_,
                                 Len(MapKeys(DOMAIN model_.joints_)))} :
     LET names == [leftHand |-> leftHandJointName_,
                   rightHand |-> rightHandJointName_,
                   leftWrist |-> leftWristJointName_,
                   rightWrist |-> rightWristJointName_,
                   leftFoot |-> leftFootJointName_,
                   rightFoot |-> rightFootJointName_,
                   leftAnkle |-> leftAnkleJointName_,
                   rightAnkle |-> rightAnkleJointName_]
         hasGaze == gazeJointName_ \in DOMAIN jointsMap_
     IN  IF act.threw
         THEN /\ robot_' = [robot_ EXCEPT !.initialized = TRUE]
              /\ returned' = "exception"
              /\ pc' = "idle"
              /\ UNCHANGED jointsMap_
         ELSE
           \E outcome \in (IF hasGaze THEN {"goes on"}
                           ELSE {"dies", "goes on"}) :
             IF outcome = "dies"
             THEN /\ robot_' = [robot_ EXCEPT
                                  !.initialized = TRUE,
                                  !.actuatedJoints = act.jointsVect]
                  /\ pc' = "crashed"
                  /\ UNCHANGED <<returned, jointsMap_>>
             ELSE /\ robot_' =
                       fillHandsAndFeet(
                         [robot_ EXCEPT
                            !.initialized = TRUE,
                            !.actuatedJoints = act.jointsVect,
                            !.gazeJoint = IF hasGaze THEN gazeJointName_
                                          ELSE "garbage",
                            !.gaze = <<[dir |-> <<1, 0, 0>>,
                                        origin |-> <<0, 0, 0>>]>>,
                            !.steeringMethod = TRUE],
                         jointsMap_, names)
                  /\ jointsMap_' =
                       [jointsMap_ EXCEPT
                          ![robot_.rootJoint] = setFreeFlyerBounds(@)]
                  /\ returned' = "robot"
                  /\ pc' = "idle"
  /\ UNCHANGED <<model_, rootJoint_, specialNames, it, stack, joint,
                 callVars>>

\* the first parseStream call on the Parser, with any robot description
FirstParseStream ==
  /\ returned = "none"
  /\ \E robotDescription \in RobotDescriptions : ParseStream(robotDescription)

\* one build: a Parser on which parseStream is called once
Next ==
  \/ FirstParseStream
  \/ ParseJointsIteration
  \/ ParseJointsReturn
  \/ ConnectJointsEnter
  \/ ConnectJointsChild
  \/ ConnectJointsReturn
  \/ SetSpecialJoints
  \/ AddBodiesIteration
  \/ ParseStreamEnd

Spec == Init /\ [][Next]_vars

(***************************************************************************)
(* normalizeFrameOrientation on its own: a call on any joint whose axis    *)
(* has integer components of magnitude at most MaxAxis and a rational      *)
(* norm, or on a null pointer                                              *)
(***************************************************************************)
MaxAxis == 6
Axes ==
  { a \in (-MaxAxis..MaxAxis) \X (-MaxAxis..MaxAxis) \X (-MaxAxis..MaxAxis) :
      /\ a # <<0, 0, 0>>
      /\ IsSquare(a[1] * a[1] + a[2] * a[2] + a[3] * a[3]) }
AxisJoint(a) ==
  [ name |-> "j1", type |-> "REVOLUTE", axis |-> a,
    parent_link_name |-> "base_link", child_link_name |-> "l1",
    parent_to_joint_origin_transform |-> Pose0, limits |-> <<>> ]

InitNormalize ==
  /\ Constructed
  /\ NotRunning
  /\ pc = "normalizeFrameOrientation"
  /\ urdfJoint \in {AxisJoint(a) : a \in Axes} \cup {NullJoint}
  /\ frame = Identity4
  /\ referenceJointName = ""
  /\ currentJointName = ""
  /\ resolvedPose = Identity4

NormalizeFrameOrientation ==
  /\ pc = "normalizeFrameOrientation"
  /\ frame' = normalizeFrameOrientation(urdfJoint)
  /\ pc' = "idle"
  /\ UNCHANGED <<model_, robot_, rootJoint_, jointsMap_, specialNames, it,
                 stack, returned, joint, urdfJoint, resolverVars>>

SpecNormalize == InitNormalize /\ [][NormalizeFrameOrientation]_vars

(***************************************************************************)
(* getPoseInReferenceFrame on its own: a call on the graph of any document *)
(* that has joints, for any reference name and any joint of the graph      *)
(***************************************************************************)
InitPose ==
  /\ model_ \in {d \in Docs : DOMAIN d.joints_ # {}}
  /\ NothingBuilt
  /\ NotRunning
  /\ pc = "getPoseInReferenceFrame"
  /\ urdfJoint = NullJoint
  /\ frame = Identity4
  /\ referenceJointName \in {NameOrder[i] : i \in 1..Len(NameOrder)}
  /\ currentJointName \in DOMAIN model_.joints_
  /\ resolvedPose = Identity4

GetPoseInReferenceFrame ==
  /\ pc = "getPoseInReferenceFrame"
  /\ resolvedPose' =
       getPoseInReferenceFrame(model_, referenceJointName, currentJointName)
  /\ pc' = "idle"
  /\ UNCHANGED <<model_, robot_, rootJoint_, jointsMap_, specialNames, it,
                 stack, returned, joint, normalizerVars, referenceJointName,
                 currentJointName>>

SpecPose == InitPose /\ [][GetPoseInReferenceFrame]_vars

(***************************************************************************)
(* One Parser used for several builds: parseStream is called again, with   *)
(* any of a few robot descriptions, whenever the previous call has         *)
(* returned                                                                *)
(***************************************************************************)
RepeatedDocs ==
  { UrdfModel(topo, [n \in TopoJoints(topo) |-> DefaultJoint],
              [l \in TopoLinks(topo) |-> LinkBare]) :
      topo \in {SiblingsA, Tree3, Arm, RoleTopology("torso")} }
  \cup {SingleLink}
RepeatedDescriptions ==
  {[valid |-> TRUE, graph |-> d] : d \in RepeatedDocs}
  \cup {[valid |-> FALSE, graph |-> EmptyModel]}

NextParseStream ==
  \E robotDescription \in RepeatedDescriptions : ParseStream(robotDescription)

NextRepeated ==
  \/ NextParseStream
  \/ ParseJointsIteration
  \/ ParseJointsReturn
  \/ ConnectJointsEnter
  \/ ConnectJointsChild
  \/ ConnectJointsReturn
  \/ SetSpecialJoints
  \/ AddBodiesIteration
  \/ ParseStreamEnd

SpecRepeated == Init /\ [][NextRepeated]_vars

(***************************************************************************)
(* Properties of the Frame Normalizer                                      *)
(***************************************************************************)
\* the lowest index among the components of a of smallest magnitude
LowestSmallest(a) ==
  CHOOSE s \in 1..3 :
    /\ \A i \in 1..3 : Abs(a[s]) <= Abs(a[i])
    /\ \A i \in 1..(s - 1) : Abs(a[i]) > Abs(a[s])
\* a call of normalizeFrameOrientation on a joint has returned
Normalized == pc = "idle" /\ urdfJoint.name # Null
SameDirection(x, a) ==
  /\ Cross(x, Vec3(a[1], a[2], a[3])) = <<R0, R0, R0>>
  /\ RLt(R0, Dot(x, Vec3(a[1], a[2], a[3])))

\* C6: for every non-zero axis the three rotation columns x, y, z of the
\* matrix normalizeFrameOrientation returns are pairwise orthogonal, x is
\* the axis scaled to unit length, x cross y is z, and z is x cross e_s, e_s
\* the standard basis vector of the smallest-magnitude component of the
\* axis, the lowest index winning ties.
C6_OrthogonalRightHandedFrame ==
  Normalized =>
    /\ Dot(Col(frame, 1), Col(frame, 2)) = R0
    /\ Dot(Col(frame, 1), Col(frame, 3)) = R0
    /\ Dot(Col(frame, 2), Col(frame, 3)) = R0
    /\ Dot(Col(frame, 1), Col(frame, 1)) = R1
    /\ SameDirection(Col(frame, 1), urdfJoint.axis)
    /\ Cross(Col(frame, 1), Col(frame, 2)) = Col(frame, 3)
    /\ Col(frame, 3) =
         Cross(Col(frame, 1), UnitVector(LowestSmallest(urdfJoint.axis)))
    /\ frame[4] = <<R0, R0, R0, R1>>
    /\ \A i \in 1..3 : frame[i][4] = R0
\* a returned call on an axis with a tie for the smallest component, the
\* tie not being at the last index alone
C6_Witness ==
  /\ Normalized
  /\ urdfJoint.axis = <<2, 0, 0>>
  /\ Col(frame, 3) = <<R0, R0, R1>>

\* C7: for every non-zero axis, also one with no zero component, the three
\* rotation columns of the matrix normalizeFrameOrientation returns have
\* unit length.
C7_UnitColumns ==
  Normalized =>
    \A j \in 1..3 : Dot(Col(frame, j), Col(frame, j)) = R1

(***************************************************************************)
(* Properties of the Pose Resolver                                         *)
(***************************************************************************)
\* the parent joint of joint j of graph m, Null when j's parent link is not
\* found or has no parent joint
ParentJointOf(m, j) ==
  IF m.joints_[j].parent_link_name \in DOMAIN m.links_
  THEN m.links_[m.joints_[j].parent_link_name].parent_joint
  ELSE Null
\* the upward chain from joint t, topmost joint first: it stops at r when r
\* is t or above t, and at the topmost joint otherwise
RECURSIVE UpwardChain(_, _, _)
UpwardChain(m, r, t) ==
  IF t = r \/ ParentJointOf(m, t) = Null THEN <<t>>
  ELSE UpwardChain(m, r, ParentJointOf(m, t)) \o <<t>>
\* the product of the parent_to_joint_origin transforms of a chain of
\* joints, the first joint's factor leftmost
RECURSIVE ChainProduct(_, _)
ChainProduct(m, chain) ==
  IF chain = <<>> THEN Identity4
  ELSE MatMul(poseToMatrix(
                m.joints_[Head(chain)].parent_to_joint_origin_transform),
              ChainProduct(m, Tail(chain)))
\* a call of getPoseInReferenceFrame has returned
Resolved == pc = "idle"

\* C8: getPoseInReferenceFrame (R, T) is the product, parentward factor on
\* the left, of the transforms of the joints on the upward chain from T,
\* which stops at R inclusive when R is T or above T and at the topmost
\* joint otherwise; getPoseInReferenceFrame (J, J) is J's own transform.
C8_PoseIsChainProduct ==
  Resolved =>
    /\ resolvedPose =
         ChainProduct(model_, UpwardChain(model_, referenceJointName,
                                          currentJointName))
    /\ referenceJointName = currentJointName =>
         resolvedPose =
           poseToMatrix(model_.joints_[currentJointName]
                          .parent_to_joint_origin_transform)
\* a returned call whose chain has three joints and ends at the reference,
\* with transforms that do not commute
C8_Witness ==
  /\ Resolved
  /\ UpwardChain(model_, referenceJointName, currentJointName)
       = <<"base_footprint_joint", "j1", "gaze_joint">>
  /\ model_.joints_["base_footprint_joint"]
       .parent_to_joint_origin_transform = PoseA
  /\ model_.joints_["j1"].parent_to_joint_origin_transform = PoseB
  /\ model_.joints_["gaze_joint"].parent_to_joint_origin_transform = PoseA

\* joint a is above joint c on c's upward chain
IsAncestor(m, a, c) ==
  /\ a # c
  /\ a \in DOMAIN m.joints_
  /\ UpwardChain(m, a, c)[1] = a
\* C9: for joints A above B above C, getPoseInReferenceFrame (A, B) *
\* getPoseInReferenceFrame (B, C) = getPoseInReferenceFrame (A, C).
C9_ComposesThroughIntermediate ==
  Resolved =>
    \A b \in DOMAIN model_.joints_ :
      IsAncestor(model_, referenceJointName, b)
      /\ IsAncestor(model_, b, currentJointName)
      => MatMul(getPoseInReferenceFrame(model_, referenceJointName, b),
                getPoseInReferenceFrame(model_, b, currentJointName))
           = resolvedPose

(***************************************************************************)
(* Properties of the Joint Factory                                         *)
(***************************************************************************)
\* C1: a create operation called with a name the registry already holds
\* returns null and leaves the registry as it was: the same keys, the node
\* under that name unchanged.  The create calls of a build are those of
\* parseJoints, one per pass that reaches the switch's create cases.
C1_DuplicateNameRejected ==
  [][ ( /\ pc = "parseJoints"
        /\ it' = it + 1
        /\ currentJointName' \in DOMAIN jointsMap_ )
      => ( /\ joint' = Null
           /\ jointsMap_' = jointsMap_ ) ]_vars
\* a pass of parseJoints has called createTranslationJoint with the name of
\* the root joint
C1_Witness ==
  /\ pc = "parseJoints"
  /\ it > 1
  /\ currentJointName = "base_joint"
  /\ model_.joints_["base_joint"].type = "PRISMATIC"
  /\ joint = Null
  /\ jointsMap_["base_joint"].kind = "FreeflyerJoint"

\* C2: when a joint of the document has a name the registry already holds
\* (a document joint named base_joint), parseStream aborts the build and
\* returns no robot: the build never goes past parseJoints.
C2_DuplicateNameAborts ==
  "base_joint" \in DOMAIN model_.joints_
  => /\ pc \in {"idle", "parseJoints"}
     /\ returned \in {"none", "null"}

\* the joints of the document of a kind parseJoints has no create call for
Unsupported(m) ==
  {n \in DOMAIN m.joints_ : m.joints_[n].type \in {"PLANAR", "UNKNOWN"}}
\* C3: with a PLANAR (or UNKNOWN) joint in the document parseStream returns
\* no robot, wherever the joint stands in the name-ordered iteration: the
\* loop of parseJoints never passes that joint, and the build ends there
\* with a null robot.
C3_UnsupportedKindAborts ==
  Unsupported(model_) # {}
  => /\ pc \in {"idle", "parseJoints"}
     /\ returned \in {"none", "null"}
     /\ returned = "null" => robot_ = NullRobot
     /\ pc = "parseJoints" =>
          \A k \in 1..(it - 1) :
            MapKeys(DOMAIN model_.joints_)[k] \notin Unsupported(model_)
\* parseStream has returned null at a PLANAR joint that is the third joint
\* of the iteration
C3_Witness ==
  /\ pc = "idle"
  /\ returned = "null"
  /\ it = 3
  /\ Len(MapKeys(DOMAIN model_.joints_)) = 3
  /\ model_.joints_[MapKeys(DOMAIN model_.joints_)[3]].type = "PLANAR"

(***************************************************************************)
(* Properties of the Tree Assembler                                        *)
(***************************************************************************)
\* the joints of graph m below link l
RECURSIVE JointsBelow(_, _)
JointsBelow(m, l) ==
  UNION { {m.links_[l].child_joints[k]}
          \cup JointsBelow(m, m.joints_[m.links_[l].child_joints[k]]
                                .child_link_name) :
          k \in 1..Len(m.links_[l].child_joints) }
\* how many times the node named n stands in the tree of registry jm under
\* (and including) the node named node
RECURSIVE Occurrences(_, _, _)
RECURSIVE OccurrencesIn(_, _, _)
Occurrences(jm, node, n) ==
  (IF node = n THEN 1 ELSE 0) + OccurrencesIn(jm, jm[node].children, n)
OccurrencesIn(jm, nodes, n) ==
  IF nodes = <<>> THEN 0
  ELSE Occurrences(jm, Head(nodes), n) + OccurrencesIn(jm, Tail(nodes), n)

\* C4: when parseStream succeeds, every joint of the document reachable from
\* the document's root link stands exactly once in the tree under the root
\* base_joint.
C4_EveryReachableJointOnce ==
  returned = "robot"
  => \A n \in JointsBelow(model_, getRoot(model_)) :
       Occurrences(jointsMap_, robot_.rootJoint, n) = 1

\* the children the document declares for the node n: the child_joints of
\* its child link in declared order (of base_link for the root; none when
\* the document has no such link), a joint that is not registered replaced
\* by its own such list
RECURSIVE DeclaredFrom(_, _, _)
DeclaredFrom(m, jm, joints) ==
  IF joints = <<>> THEN <<>>
  ELSE (IF Head(joints) \in DOMAIN jm THEN <<Head(joints)>>
        ELSE DeclaredFrom(
               m, jm,
               m.links_[m.joints_[Head(joints)].child_link_name]
                 .child_joints))
       \o DeclaredFrom(m, jm, Tail(joints))
ChildLinkOf(m, n) ==
  IF n = "base_joint" THEN "base_link" ELSE m.joints_[n].child_link_name
DeclaredChildren(m, jm, n) ==
  IF ChildLinkOf(m, n) \in DOMAIN m.links_
  THEN DeclaredFrom(m, jm, m.links_[ChildLinkOf(m, n)].child_joints)
  ELSE <<>>
\* the names of the nodes of the tree under (and including) node
RECURSIVE TreeNodes(_, _)
TreeNodes(jm, node) ==
  {node}
  \cup UNION { TreeNodes(jm, jm[node].children[k]) :
               k \in 1..Len(jm[node].children) }
\* connectJoints (rootJoint_) has returned
Connected ==
  pc \in {"setSpecialJoints", "addBodiesToJoints"} \/ returned = "robot"

\* C5: once the tree is assembled, the ordered children of every node of
\* the tree are the children the document declares for it, in declared
\* order, whatever the order of their names.
C5_ChildrenInDeclaredOrder ==
  Connected
  => \A n \in TreeNodes(jointsMap_, robot_.rootJoint) :
       jointsMap_[n].children = DeclaredChildren(model_, jointsMap_, n)
\* a robot whose root has two children declared against the order of their
\* names
C5_Witness ==
  /\ returned = "robot"
  /\ jointsMap_["base_joint"].children = <<"j1", "gaze_joint">>
  /\ NameRank("gaze_joint") < NameRank("j1")

(***************************************************************************)
(* Properties of the limits                                                *)
(***************************************************************************)
\* the joints of the document that parseJoints registered
Created == DOMAIN jointsMap_ \ {"base_joint"}
\* C10: a REVOLUTE or PRISMATIC joint created with limits is registered with
\* its degree of freedom bounded, position bounds [lower, upper], velocity
\* bounds [-velocity, velocity] and effort bounds [-effort, effort]; a
\* CONTINUOUS joint is registered unbounded whatever limits it declares.
C10_LimitsRegistered ==
  \A n \in Created :
    /\ ( /\ model_.joints_[n].type \in {"REVOLUTE", "PRISMATIC"}
         /\ model_.joints_[n].limits # <<>> )
       => /\ jointsMap_[n].isBounded = <<"bounded">>
          /\ jointsMap_[n].bounds =
               << <<RInt(model_.joints_[n].limits[1].lower),
                    RInt(model_.joints_[n].limits[1].upper)>> >>
          /\ jointsMap_[n].velocityBounds =
               << <<RInt(-model_.joints_[n].limits[1].velocity),
                    RInt(model_.joints_[n].limits[1].velocity)>> >>
          /\ jointsMap_[n].torqueBounds =
               << <<RInt(-model_.joints_[n].limits[1].effort),
                    RInt(model_.joints_[n].limits[1].effort)>> >>
    /\ model_.joints_[n].type = "CONTINUOUS"
       => /\ jointsMap_[n].isBounded = <<"unbounded">>
          /\ jointsMap_[n].bounds = << <<>> >>
\* a robot with a PRISMATIC joint registered with its limits and a
\* CONTINUOUS joint that declares limits
C10_Witness ==
  /\ returned = "robot"
  /\ \E n \in Created :
       /\ model_.joints_[n].type = "PRISMATIC"
       /\ jointsMap_[n].velocityBounds = << <<RInt(-1), RInt(1)>> >>
       /\ jointsMap_[n].torqueBounds = << <<RInt(-4), RInt(4)>> >>
  /\ \E n \in Created :
       /\ model_.joints_[n].type = "CONTINUOUS"
       /\ model_.joints_[n].limits # <<>>

(***************************************************************************)
(* Properties of the floating joints                                       *)
(***************************************************************************)
\* the registered joints made by createFreeflyerJoint
Freeflyers == {n \in DOMAIN jointsMap_ : jointsMap_[n].kind = "FreeflyerJoint"}
\* C11: every floating joint has 6 degrees of freedom, all marked unbounded
\* with no bound set, from its creation on; once parseStream has returned a
\* robot the root floating joint has freedoms 0..2 unbounded with bounds
\* -inf/+inf, freedoms 3 and 4 bounded with bounds [-pi/6, +pi/6] and
\* freedom 5 unbounded with bounds -inf/+inf, and the other floating joints
\* still have all 6 freedoms unbounded.
C11_FloatingJointBounds ==
  \A n \in Freeflyers :
    /\ DOMAIN jointsMap_[n].isBounded = 1..6
    /\ IF returned = "robot" /\ n = rootJoint_
       THEN /\ \A i \in {1, 2, 3, 6} :
                 /\ jointsMap_[n].isBounded[i] = "unbounded"
                 /\ jointsMap_[n].jrlBounds[i] = <<MinusInfinity, Infinity>>
                 /\ jointsMap_[n].bounds[i] = <<>>
            /\ \A i \in {4, 5} :
                 /\ jointsMap_[n].isBounded[i] = "bounded"
                 /\ jointsMap_[n].bounds[i] = <<MinusPiOver6, PiOver6>>
       ELSE \A i \in 1..6 :
              /\ jointsMap_[n].isBounded[i] = "unbounded"
              /\ jointsMap_[n].bounds[i] = <<>>
              /\ jointsMap_[n].jrlBounds[i] = <<>>
\* a robot whose document has a FLOATING joint besides the root
C11_Witness ==
  /\ returned = "robot"
  /\ rootJoint_ = "base_joint"
  /\ jointsMap_["base_joint"].isBounded[4] = "bounded"
  /\ \E n \in Freeflyers :
       /\ n # "base_joint"
       /\ model_.joints_[n].type = "FLOATING"

(***************************************************************************)
(* Properties of the Body/Inertia Attacher                                 *)
(***************************************************************************)
\* the link addBodiesToJoints reads for the registered joint n, and the
\* registered joints of the document whose body is attached
LinkOfJoint(m, n) == m.links_[ChildLinkOf(m, n)]
WithBody == {n \in DOMAIN jointsMap_ : jointsMap_[n].body # <<>>}
\* the rotation block of a CkitMat4, the product of two 3x3 matrices and of
\* a 3x3 matrix with a vector
Rotation3(M) == [i \in 1..3 |-> [j \in 1..3 |-> M[i][j]]]
Mat3Mul(A, B) ==
  [i \in 1..3 |-> [j \in 1..3 |->
     RAdd(RAdd(RMul(A[i][1], B[1][j]), RMul(A[i][2], B[2][j])),
          RMul(A[i][3], B[3][j]))]]
Mat3Vec(A, v) ==
  [i \in 1..3 |->
     RAdd(RAdd(RMul(A[i][1], v[1]), RMul(A[i][2], v[2])), RMul(A[i][3], v[3]))]
\* the centre of mass and the tensor the document gives a link
DocumentCom(link) ==
  << RInt(link.inertial[1].origin.position[1]),
     RInt(link.inertial[1].origin.position[2]),
     RInt(link.inertial[1].origin.position[3]) >>
DocumentTensor(link) ==
  << <<RInt(link.inertial[1].ixx), RInt(link.inertial[1].ixy),
       RInt(link.inertial[1].ixz)>>,
     <<RInt(link.inertial[1].ixy), RInt(link.inertial[1].iyy),
       RInt(link.inertial[1].iyz)>>,
     <<RInt(link.inertial[1].ixz), RInt(link.inertial[1].iyz),
       RInt(link.inertial[1].izz)>> >>
\* the body is the document's data re-expressed by rotation R:
\* R com' = com and R I' = I R
ReexpressedWith(body, link, R) ==
  /\ Mat3Vec(R, body.localCenterOfMass) = DocumentCom(link)
  /\ Mat3Mul(R, body.inertiaMatrix) = Mat3Mul(DocumentTensor(link), R)
Copied(body, link) ==
  /\ body.localCenterOfMass = DocumentCom(link)
  /\ body.inertiaMatrix = DocumentTensor(link)
\* the body attached to n has inertial data to re-express
ToReexpress(m, n) ==
  /\ n # "base_joint"
  /\ Actuated(m.joints_[LinkOfJoint(m, n).parent_joint].type)

\* C12: the body attached to a registered joint whose link has an inertial
\* block carries the document's mass unchanged; its centre of mass and
\* tensor are re-expressed by the normalization rotation R of the link's
\* parent joint (com' = R^-1 com, I' = R^-1 I R) when the joint is not the
\* root base_joint and the link's parent joint is REVOLUTE, CONTINUOUS or
\* PRISMATIC, and are the document's values unchanged otherwise (the root,
\* links under FIXED or FLOATING joints).
C12_ReexpressedIffActuated ==
  \A n \in WithBody :
    LinkOfJoint(model_, n).inertial # <<>>
    => /\ jointsMap_[n].body[1].mass
            = RInt(LinkOfJoint(model_, n).inertial[1].mass)
       /\ IF ToReexpress(model_, n)
          THEN ReexpressedWith(
                 jointsMap_[n].body[1], LinkOfJoint(model_, n),
                 Rotation3(normalizeFrameOrientation(
                   model_.joints_[LinkOfJoint(model_, n).parent_joint])))
          ELSE Copied(jointsMap_[n].body[1], LinkOfJoint(model_, n))
\* a robot whose root, whose PRISMATIC joint j1 of axis (1, 2, 2) and whose
\* REVOLUTE joint gaze_joint all carry a body with inertial data, the two
\* re-expressed bodies differing from the document's data
C12_Witness ==
  /\ returned = "robot"
  /\ {"base_joint", "j1", "gaze_joint"} \subseteq WithBody
  /\ model_.joints_["j1"].type = "PRISMATIC"
  /\ \A n \in {"base_joint", "j1", "gaze_joint"} :
       LinkOfJoint(model_, n).inertial # <<>>
  /\ \A n \in {"j1", "gaze_joint"} :
       ~Copied(jointsMap_[n].body[1], LinkOfJoint(model_, n))
\* a robot whose FIXED joint j1 carries a body with inertial data
C12_WitnessFixed ==
  /\ returned = "robot"
  /\ "j1" \in WithBody
  /\ model_.joints_["j1"].type = "FIXED"
  /\ LinkOfJoint(model_, "j1").inertial # <<>>

\* the registry entry the next pass of the loop of addBodiesToJoints reads,
\* when there is one and the graph has its link
AtBodyOf(n) ==
  /\ pc = "addBodiesToJoints"
  /\ it <= Len(MapKeys(DOMAIN jointsMap_))
  /\ n = MapKeys(DOMAIN jointsMap_)[it]
  /\ ChildLinkOf(model_, n) \in DOMAIN model_.links_
ZeroBody ==
  [mass |-> R0, localCenterOfMass |-> <<R0, R0, R0>>,
   inertiaMatrix |-> <<<<R0, R0, R0>>, <<R0, R0, R0>>, <<R0, R0, R0>>>>]
\* C13: the pass of addBodiesToJoints for a registered joint whose link has
\* no inertial block attaches a body with mass 0, centre of mass (0, 0, 0)
\* and an all-zero tensor, and, the link's geometry aside, the loop goes on
\* to the next joint: no failure is returned for the missing inertial data.
C13_MissingInertialIsZeroBody ==
  [][ \A n \in DOMAIN jointsMap_ :
        ( /\ AtBodyOf(n)
          /\ LinkOfJoint(model_, n).inertial = <<>> )
        => /\ jointsMap_'[n].body = <<ZeroBody>>
           /\ ( LinkOfJoint(model_, n).visual = <<>>
                \/ LinkOfJoint(model_, n).collision = <<>> )
              => /\ pc' = "addBodiesToJoints"
                 /\ it' = it + 1
                 /\ returned' = returned ]_vars
\* a robot with a joint whose link has no inertial block and a joint whose
\* link has one
C13_Witness ==
  /\ returned = "robot"
  /\ "j1" \in WithBody
  /\ LinkOfJoint(model_, "j1").inertial = <<>>
  /\ jointsMap_["j1"].body = <<ZeroBody>>
  /\ "gaze_joint" \in WithBody
  /\ LinkOfJoint(model_, "gaze_joint").inertial # <<>>

\* a registered joint whose expected link the graph does not have
MissingLink ==
  \E n \in DOMAIN jointsMap_ : ChildLinkOf(model_, n) \notin DOMAIN model_.links_
\* the running connectJoints call is about to read the child_joints of a
\* link that getChildrenJoint did not find
ReadsMissingLink ==
  /\ pc = "connectJoints"
  /\ stack[Len(stack)].state = "enter"
  /\ getChildrenJoint(model_, jointsMap_, stack[Len(stack)].joint, <<>>)
       .nullRead
\* C14: when the link expected for a registered joint is not in the graph
\* (for the root base_joint the link base_link), the build ends with a
\* failure: parseStream returns no robot, no step reads through the missing
\* link and the process does not die of it.
C14_MissingLinkFails ==
  MissingLink
  => /\ ~ReadsMissingLink
     /\ pc # "crashed"
     /\ returned \in {"none", "null"}

(***************************************************************************)
(* Properties of the Geometry Attachment Resolver                          *)
(***************************************************************************)
\* the link carries a visual MESH and a collision MESH of different
\* filenames
MismatchedMeshes(link) ==
  /\ link.visual # <<>>
  /\ link.collision # <<>>
  /\ link.visual[1].geometry.type = "MESH"
  /\ link.collision[1].geometry.type = "MESH"
  /\ link.visual[1].geometry.filename # link.collision[1].geometry.filename
\* the joints addBodiesToJoints has passed whose link has such meshes
PassedMismatch ==
  {n \in WithBody : MismatchedMeshes(LinkOfJoint(model_, n))}

\* C15: a link with a visual MESH and a collision MESH of different
\* filenames does not abort the build: after the pass of addBodiesToJoints
\* on its joint parseStream has not returned failure, and the build goes
\* on to the sibling joints.
C15_MismatchSparesSiblings ==
  PassedMismatch # {} => returned # "null"

\* C15, amended: the pass of addBodiesToJoints on the joint of such a link
\* ends the build.  parseStream returns no robot; the joint has its body
\* but no geometry; the joints that come after it in the name order of the
\* registry, siblings included, have neither body nor geometry.
C15_MismatchAbortsBuild ==
  \A n \in PassedMismatch :
    /\ pc = "idle"
    /\ returned = "null"
    /\ robot_ = NullRobot
    /\ MapKeys(DOMAIN jointsMap_)[it] = n
    /\ jointsMap_[n].solids = <<>>
    /\ \A k \in (it + 1)..Len(MapKeys(DOMAIN jointsMap_)) :
         /\ jointsMap_[MapKeys(DOMAIN jointsMap_)[k]].body = <<>>
         /\ jointsMap_[MapKeys(DOMAIN jointsMap_)[k]].solids = <<>>
\* the build has ended at gaze_joint, whose link has mismatched meshes: the
\* root has its body and its box, and the sibling j1, whose link carries
\* inertial data and a box, has nothing
C15_Witness ==
  /\ "gaze_joint" \in PassedMismatch
  /\ returned = "null"
  /\ "j1" \in DOMAIN jointsMap_
  /\ LinkOfJoint(model_, "j1").inertial # <<>>
  /\ LinkOfJoint(model_, "j1").visual # <<>>
  /\ jointsMap_["j1"].body = <<>>
  /\ jointsMap_["base_joint"].body # <<>>
  /\ Len(jointsMap_["base_joint"].solids) = 1

\* the kinds of primitives the claim gives a pair of geometry types
ExpectedKinds(visualType, collisionType) ==
  IF visualType = "MESH" /\ collisionType = "MESH" THEN <<"polyhedron">>
  ELSE IF visualType = "CYLINDER" /\ collisionType = "CYLINDER"
  THEN <<"cylinder">>
  ELSE IF visualType = "BOX" /\ collisionType = "BOX" THEN <<"box">>
  ELSE IF visualType = "MESH" /\ collisionType = "CYLINDER"
  THEN <<"capsule", "segment">>
  ELSE <<>>
\* the names the primitives of those kinds carry on link l
ExpectedNames(kinds, l) ==
  [k \in 1..Len(kinds) |-> IF kinds[k] = "segment" THEN l \o "-segment" ELSE l]
\* the build has ended in the pass of addBodiesToJoints on joint n
FailedAt(n) ==
  /\ pc = "idle"
  /\ returned = "null"
  /\ it <= Len(MapKeys(DOMAIN jointsMap_))
  /\ MapKeys(DOMAIN jointsMap_)[it] = n
\* the primitives attached to joint n are of the given kinds, named after
\* link l
Attached(n, kinds, l) ==
  /\ Len(jointsMap_[n].solids) = Len(kinds)
  /\ \A k \in 1..Len(kinds) :
       /\ jointsMap_[n].solids[k].kind = kinds[k]
       /\ jointsMap_[n].solids[k].name = ExpectedNames(kinds, l)[k]

RoleNames ==
  << chestJointName_, leftWristJointName_, rightWristJointName_,
     leftHandJointName_, rightHandJointName_, leftAnkleJointName_,
     rightAnkleJointName_, leftFootJointName_, rightFootJointName_,
     gazeJointName_ >>
\* the well-known link of role i is in the graph and has a parent joint
RoleFound(m, i) ==
  /\ SpecialLinks[i] \in DOMAIN m.links_
  /\ m.links_[SpecialLinks[i]].parent_joint # Null
\* findSpecialJoints has run in the build under way or finished
SpecialJointsFound == model_ # EmptyModel

\* C17: after findSpecialJoints the waist role is the name base_joint, and
\* every other role whose well-known link is in the graph with a parent
\* joint has the name of that parent joint.
C17_RolesFromWellKnownLinks ==
  SpecialJointsFound
  => /\ waistJointName_ = "base_joint"
     /\ \A i \in 1..Len(SpecialLinks) :
          RoleFound(model_, i)
          => RoleNames[i] = model_.links_[SpecialLinks[i]].parent_joint
\* a robot of the arm document: the left wrist is j1, the left hand j2, the
\* gaze gaze_joint
C17_Witness ==
  /\ returned = "robot"
  /\ waistJointName_ = "base_joint"
  /\ leftWristJointName_ = "j1"
  /\ leftHandJointName_ = "j2"
  /\ gazeJointName_ = "gaze_joint"
  /\ model_.links_["l_gripper"].parent_joint = "j2"

\* what the robot holds for each looked-up role, in the order of
\* SpecialLinks, and the value of a role that was never set
RobotRoles ==
  << robot_.chest, robot_.leftWrist, robot_.rightWrist, robot_.leftHand,
     robot_.rightHand, robot_.leftAnkle, robot_.rightAnkle, robot_.leftFoot,
     robot_.rightFoot, robot_.gazeJoint >>
UnsetRole(i) == IF i \in {4, 5, 8, 9} THEN <<>> ELSE Null
\* the process died in the last part of parseStream, after
\* robot_->initialize ()
DiedFillingRoles == pc = "crashed" /\ robot_.initialized

\* C18: for every looked-up role whose well-known link the document does
\* not have, the role's name stays unset, the build is not stopped by it
\* (the last part of parseStream, fillGaze and fillHandsAndFeet, does not
\* read the registry through a name that is not there), and the robot
\* returned has the role unset.
C18_MissingRoleLeftUnset ==
  SpecialJointsFound
  => \A i \in 1..Len(SpecialLinks) :
       ~RoleFound(model_, i)
       => /\ RoleNames[i] = ""
          /\ ~DiedFillingRoles
          /\ returned = "robot" => RobotRoles[i] = UnsetRole(i)

(***************************************************************************)
(* Properties of repeated builds                                           *)
(***************************************************************************)
\* what a freshly constructed Parser makes of the graph m: the name of each
\* looked-up role, the waist name, and the joint the robot holds for the
\* roles setSpecialJoints sets (chest, wrists, ankles)
FreshRoleName(m, i) ==
  IF RoleFound(m, i) THEN m.links_[SpecialLinks[i]].parent_joint ELSE ""
FreshWaistName(m) == IF m = EmptyModel THEN "" ELSE "base_joint"
FreshRobotRole(m, jm, i) ==
  IF FreshRoleName(m, i) \in DOMAIN jm THEN FreshRoleName(m, i) ELSE Null

\* C19: whatever builds the Parser has run before, the state of the last
\* parseStream call is that of the same call on a freshly constructed
\* Parser: the registry holds joints of the current document only, every
\* anatomy role name is the one the current document gives (unset when it
\* gives none), and the robot returned holds for chest, wrists and ankles
\* the joints of those names.  Nothing set by an earlier build survives.
C19_NothingSurvivesABuild ==
  /\ DOMAIN jointsMap_ \subseteq DOMAIN model_.joints_ \cup {"base_joint"}
  /\ rootJoint_ \in {Null, "base_joint"}
  /\ waistJointName_ = FreshWaistName(model_)
  /\ \A i \in 1..Len(SpecialLinks) :
       /\ RoleNames[i] = FreshRoleName(model_, i)
       /\ (returned = "robot" /\ i \in {1, 2, 3, 6, 7})
          => RobotRoles[i] = FreshRobotRole(model_, jointsMap_, i)

(***************************************************************************)
(* Properties of the geometry placements                                   *)
(***************************************************************************)
\* the origin the placement of a primitive starts from: the collision
\* origin for the capsule and its segment, the visual origin otherwise
LocalOrigin(link, kind) ==
  IF kind \in {"capsule", "segment"} THEN link.collision[1].origin
  ELSE link.visual[1].origin
\* the pose of the frame the link's geometry is given in: for a link other
\* than base_link under an actuated joint the resolved pose of that joint
\* before normalization, otherwise the pose registered for the joint
\* (base_joint for base_link)
GeometryFrame(m, jm, link) ==
  IF link.name = "base_link" THEN jm["base_joint"].mat
  ELSE IF Actuated(m.joints_[link.parent_joint].type)
  THEN getPoseInReferenceFrame(m, "base_footprint_joint", link.parent_joint)
  ELSE jm[link.parent_joint].mat
\* the turn that lays a cylinder or a capsule along x
Reoriented(kind, position) ==
  IF kind \in {"cylinder", "capsule", "segment"} THEN MatMul(position, zTox)
  ELSE position

\* C20: the placement computeBodyAbsolutePosition gives the geometry of a
\* link other than base_link under a REVOLUTE, CONTINUOUS or PRISMATIC
\* joint is (resolved pose of the joint, not normalized) * (local origin):
\* the de-normalization cancels the normalization of parseJoints exactly.
\* For base_link and for links under FIXED or FLOATING joints it is
\* (registered pose of the joint) * (local origin).
C20_DenormalizationCancels ==
  \A n \in WithBody :
    \A k \in 1..Len(jointsMap_[n].solids) :
      jointsMap_[n].solids[k].position =
        Reoriented(
          jointsMap_[n].solids[k].kind,
          MatMul(GeometryFrame(model_, jointsMap_, LinkOfJoint(model_, n)),
                 poseToMatrix(LocalOrigin(LinkOfJoint(model_, n),
                                          jointsMap_[n].solids[k].kind))))
\* a robot whose PRISMATIC joint j1 of axis (1, 2, 2), registered with a
\* normalized pose that differs from its resolved pose, carries a box, and
\* whose root carries the box of base_link
C20_Witness ==
  /\ returned = "robot"
  /\ "j1" \in DOMAIN jointsMap_
  /\ model_.joints_["j1"].type = "PRISMATIC"
  /\ Len(jointsMap_["j1"].solids) = 1
  /\ jointsMap_["j1"].solids[1].kind = "box"
  /\ jointsMap_["j1"].mat
       # getPoseInReferenceFrame(model_, "base_footprint_joint", "j1")
  /\ Len(jointsMap_["base_joint"].solids) = 1

(***************************************************************************)
(* Properties of the registered poses                                      *)
(***************************************************************************)
\* the pose getPoseInReferenceFrame resolves for joint n in parseJoints
ResolvedPose(n) == getPoseInReferenceFrame(model_, "base_footprint_joint", n)

\* C21: the pose parseJoints registers for a joint of the document is
\* (resolved pose) * normalizeFrameOrientation (joint) when the joint is
\* REVOLUTE, CONTINUOUS or PRISMATIC and the resolved pose itself when it
\* is FIXED or FLOATING; the root base_joint is registered with the
\* identity; a REVOLUTE joint of axis (0, 0, 1) whose resolved pose is the
\* identity is registered with (0, 0, 1) as column 0 of its rotation.
C21_RegisteredPose ==
  /\ "base_joint" \in DOMAIN jointsMap_
     => jointsMap_["base_joint"].mat = Identity4
  /\ \A n \in Created :
       /\ jointsMap_[n].mat =
            IF model_.joints_[n].type \in {"REVOLUTE", "CONTINUOUS", "PRISMATIC"}
            THEN MatMul(ResolvedPose(n),
                        normalizeFrameOrientation(model_.joints_[n]))
            ELSE ResolvedPose(n)
       /\ model_.joints_[n].type \in {"FIXED", "FLOATING"}
          => jointsMap_[n].mat = ResolvedPose(n)
       /\ ( /\ model_.joints_[n].type = "REVOLUTE"
            /\ model_.joints_[n].axis = <<0, 0, 1>>
            /\ ResolvedPose(n) = Identity4 )
          => Col(jointsMap_[n].mat, 1) = <<R0, R0, R1>>
\* the robot of the document with the single joint j1, REVOLUTE of axis
\* (0, 0, 1) with the identity origin and limits (-1, 1, 2, 5): a root with
\* the one child j1, bounded by those limits
C21_Witness ==
  /\ returned = "robot"
  /\ DOMAIN jointsMap_ = {"base_joint", "j1"}
  /\ model_.joints_["j1"].type = "REVOLUTE"
  /\ model_.joints_["j1"].axis = <<0, 0, 1>>
  /\ ResolvedPose("j1") = Identity4
  /\ Col(jointsMap_["j1"].mat, 1) = <<R0, R0, R1>>
  /\ jointsMap_["j1"].mat # Identity4
  /\ jointsMap_["base_joint"].children = <<"j1">>
  /\ jointsMap_["j1"].bounds = << <<RInt(-1), RInt(1)>> >>

(***************************************************************************)
(* Properties of termination                                               *)
(***************************************************************************)
\* every link of graph m has at most one parent joint and no joint is
\* above itself: the graph is a tree
IsTree(m) ==
  /\ \A a, b \in DOMAIN m.joints_ :
       m.joints_[a].child_link_name = m.joints_[b].child_link_name => a = b
  /\ \A n \in DOMAIN m.joints_ :
       \A k \in 1..Len(UpwardChain(m, Null, n)) - 1 :
         UpwardChain(m, Null, n)[k] # n
\* the connectJoints calls in progress are nested deeper than the graph
\* has joints, the root added
TooDeep == Len(stack) > Cardinality(DOMAIN model_.joints_) + 1

\* C22: on a graph that is a tree the recursion of connectJoints is never
\* deeper than the number of joints (the synthesized root counted apart),
\* and no step of parseStream ends the process: the call goes on until it
\* returns a robot or a failure.
C22_TerminatesWithinDepth ==
  IsTree(model_)
  => /\ ~TooDeep
     /\ pc # "crashed"

====
